---------------------------- MODULE Spec2Model ----------------------------
(***************************************************************************)
(* A model of the attribute search engine: the ordered-range index, the    *)
(* hash index, the prefix-tree index, the engine's evaluator of predicate  *)
(* trees, the query lexer and the query compiler.  Text (attribute names,  *)
(* payloads, query strings) is a sequence of one-character strings.  The   *)
(* value type V of the typed indices is instantiated with u8, as the       *)
(* persons fixture does.                                                   *)
(***************************************************************************)
EXTENDS Integers, Sequences, FiniteSets, TLC

VARIABLES engine, btree, hmap, ptree, inserted, last, op, query, result, evald,
          compiled, lexed, added

vars ==
    <<op, query, result, engine, btree, hmap, ptree, inserted, last, evald, compiled,
      lexed, added>>

(***************************************************************************)
(* Bounds of the model.                                                    *)
(***************************************************************************)
MaxId == 2

MaxVal == 2

MaxInserts == 3

MaxChildren == 3

MaxValueLen == 3

MaxTokens == 3

MaxLexLen == 5

Ids == 1..MaxId

Values == 0..MaxVal

(***************************************************************************)
(* Outcomes of a call: Result<HashSet<P>>, or a panic of the callee.       *)
(***************************************************************************)
Ok(set) == [kind |-> "Ok", set |-> set, err |-> "None"]

Err(e) == [kind |-> "Err", set |-> {}, err |-> e]

Panic == [kind |-> "Panic", set |-> {}, err |-> "None"]

NoResult == [kind |-> "None", set |-> {}, err |-> "None"]

(***************************************************************************)
(* Query: the leaves carry an attribute name and one or two text payloads, *)
(* the combinators carry their children.                                   *)
(***************************************************************************)
LeafKinds == {"Exact", "Prefix", "InRange", "OutRange", "Minimum", "Maximum"}

Exact(attr, s) == [kind |-> "Exact", attr |-> attr, v1 |-> s, v2 |-> <<>>]

Prefix(attr, s) == [kind |-> "Prefix", attr |-> attr, v1 |-> s, v2 |-> <<>>]

InRange(attr, lo, hi) == [kind |-> "InRange", attr |-> attr, v1 |-> lo, v2 |-> hi]

OutRange(attr, lo, hi) == [kind |-> "OutRange", attr |-> attr, v1 |-> lo, v2 |-> hi]

Minimum(attr, s) == [kind |-> "Minimum", attr |-> attr, v1 |-> s, v2 |-> <<>>]

Maximum(attr, s) == [kind |-> "Maximum", attr |-> attr, v1 |-> s, v2 |-> <<>>]

Or(vec) == [kind |-> "Or", children |-> vec]

And(vec) == [kind |-> "And", children |-> vec]

Exclude(base, exclude) == [kind |-> "Exclude", base |-> base, children |-> exclude]

NoQuery == [kind |-> "None"]

IsLeaf(q) == q.kind \in LeafKinds

(***************************************************************************)
(* Parsing a payload to V = u8 (str::parse::<u8>): an optional leading     *)
(* '+', then one or more decimal digits, the value at most u8::MAX.        *)
(***************************************************************************)
Digits == <<"0", "1", "2", "3", "4", "5", "6", "7", "8", "9">>

IsDigit(c) == \E i \in 1..10 : Digits[i] = c

DigitVal(c) == (CHOOSE i \in 1..10 : Digits[i] = c) - 1

U8Max == 255

RECURSIVE ParseDigits(_, _, _)
ParseDigits(s, i, acc) ==
    IF i > Len(s) THEN [ok |-> TRUE, v |-> acc]
    ELSE IF ~IsDigit(s[i]) THEN [ok |-> FALSE, v |-> 0]
    ELSE LET next == acc * 10 + DigitVal(s[i])
         IN  IF next > U8Max THEN [ok |-> FALSE, v |-> 0]
             ELSE ParseDigits(s, i + 1, next)

ParseV(s) ==
    IF Len(s) = 0 THEN [ok |-> FALSE, v |-> 0]
    ELSE IF Len(s) = 1 /\ s[1] \in {"+", "-"} THEN [ok |-> FALSE, v |-> 0]
    ELSE IF s[1] = "+" THEN ParseDigits(s, 2, 0)
    ELSE ParseDigits(s, 1, 0)

string_to_payload_type(value) ==
    LET parsed == ParseV(value)
    IN  IF parsed.ok THEN [ok |-> TRUE, v |-> parsed.v, err |-> "None"]
        ELSE [ok |-> FALSE, v |-> 0, err |-> "MismatchedQueryType"]

(***************************************************************************)
(* The maps of the typed indices: a function from the keys present to      *)
(* their postings.  entry(v).or_default().insert(id).                      *)
(***************************************************************************)
EmptyMap == [k \in {} |-> {}]

\* Mutation: the posting of a value holds the id inserted last only.
MapInsertReplace(index, primary_id, attribute_value) ==
    IF attribute_value \in DOMAIN index
    THEN [index EXCEPT ![attribute_value] = {primary_id}]
    ELSE index @@ (attribute_value :> {primary_id})

MapInsert(index, primary_id, attribute_value) ==
    IF attribute_value \in DOMAIN index
    THEN [index EXCEPT ![attribute_value] = @ \cup {primary_id}]
    ELSE index @@ (attribute_value :> {primary_id})

MapGet(index, value) ==
    IF value \in DOMAIN index THEN index[value] ELSE {}

(***************************************************************************)
(* SearchIndexBTreeRange                                                   *)
(***************************************************************************)
BTreeNew == [type |-> "btree", index |-> EmptyMap]

BTreeInsertInto(self, primary_id, attribute_value) ==
    [self EXCEPT !.index = MapInsert(self.index, primary_id, attribute_value)]

Included(v) == [bound |-> "Included", v |-> v]

Excluded(v) == [bound |-> "Excluded", v |-> v]

Unbounded == [bound |-> "Unbounded", v |-> 0]

\* BTreeMap::range panics when the start lies after the end, or when both
\* are the same excluded key.
RangePanics(lo, hi) ==
    /\ lo.bound # "Unbounded"
    /\ hi.bound # "Unbounded"
    /\ \/ lo.v > hi.v
       \/ lo.v = hi.v /\ lo.bound = "Excluded" /\ hi.bound = "Excluded"

AboveLower(k, lo) ==
    CASE lo.bound = "Included" -> k >= lo.v
      [] lo.bound = "Excluded" -> k > lo.v
      [] OTHER -> TRUE

BelowUpper(k, hi) ==
    CASE hi.bound = "Included" -> k <= hi.v
      [] hi.bound = "Excluded" -> k < hi.v
      [] OTHER -> TRUE

RECURSIVE SortedSeq(_)
SortedSeq(S) ==
    IF S = {} THEN <<>>
    ELSE LET m == CHOOSE x \in S : \A y \in S : x <= y
         IN  <<m>> \o SortedSeq(S \ {m})

\* The keys BTreeMap::range(lo, hi) visits, in ascending order.
BTreeRange(index, lo, hi) ==
    SortedSeq({k \in DOMAIN index : AboveLower(k, lo) /\ BelowUpper(k, hi)})

RECURSIVE UnionPostings(_, _, _, _)
UnionPostings(index, keys, i, result_set) ==
    IF i > Len(keys) THEN result_set
    ELSE UnionPostings(index, keys, i + 1, result_set \cup index[keys[i]])

search_range(self, lo, hi) ==
    IF RangePanics(lo, hi) THEN Panic
    ELSE Ok(UnionPostings(self.index, BTreeRange(self.index, lo, hi), 1, {}))


BTreeExact(self, value_str) ==
    LET value == string_to_payload_type(value_str)
    IN  IF ~value.ok THEN Err(value.err)
        ELSE Ok(MapGet(self.index, value.v))

\* Mutation: the range is min..max, without its upper end.
BTreeInRangeHalfOpen(self, min_str, max_str) ==
    LET min == string_to_payload_type(min_str)
        max == string_to_payload_type(max_str)
    IN  IF ~min.ok THEN Err(min.err)
        ELSE IF ~max.ok THEN Err(max.err)
        ELSE IF min.v > max.v THEN Ok({})
        ELSE search_range(self, Included(min.v), Excluded(max.v))

BTreeInRange(self, min_str, max_str) ==
    LET min == string_to_payload_type(min_str)
        max == string_to_payload_type(max_str)
    IN  IF ~min.ok THEN Err(min.err)
        ELSE IF ~max.ok THEN Err(max.err)
        ELSE IF min.v > max.v THEN Ok({})
        ELSE search_range(self, Included(min.v), Included(max.v))

BTreeMinimum(self, min_str) ==
    LET min == string_to_payload_type(min_str)
    IN  IF ~min.ok THEN Err(min.err)
        ELSE search_range(self, Included(min.v), Unbounded)

BTreeMaximum(self, max_str) ==
    LET max == string_to_payload_type(max_str)
    IN  IF ~max.ok THEN Err(max.err)
        ELSE search_range(self, Unbounded, Included(max.v))

\* Mutation: the two outer ranges include start and end.
BTreeOutRangeInclusive(self, start_str, end_str) ==
    LET start == string_to_payload_type(start_str)
        end == string_to_payload_type(end_str)
        below == search_range(self, Unbounded, Included(start.v))
        above == search_range(self, Included(end.v), Unbounded)
    IN  IF ~start.ok THEN Err(start.err)
        ELSE IF ~end.ok THEN Err(end.err)
        ELSE IF start.v > end.v THEN Ok({})
        ELSE Ok(below.set \cup above.set)

BTreeOutRange(self, start_str, end_str) ==
    LET start == string_to_payload_type(start_str)
        end == string_to_payload_type(end_str)
        below == search_range(self, Unbounded, Excluded(start.v))
        above == search_range(self, Excluded(end.v), Unbounded)
    IN  IF ~start.ok THEN Err(start.err)
        ELSE IF ~end.ok THEN Err(end.err)
        ELSE IF start.v > end.v THEN Ok({})
        ELSE IF below.kind = "Panic" \/ above.kind = "Panic" THEN Panic
        ELSE Ok(below.set \cup above.set)

BTreeSearch(self, q) ==
    CASE q.kind = "Exact" -> BTreeExact(self, q.v1)
      [] q.kind = "InRange" -> BTreeInRange(self, q.v1, q.v2)
      [] q.kind = "Minimum" -> BTreeMinimum(self, q.v1)
      [] q.kind = "Maximum" -> BTreeMaximum(self, q.v1)
      [] q.kind = "OutRange" -> BTreeOutRange(self, q.v1, q.v2)
      [] OTHER -> Err("UnsupportedQuery")

(***************************************************************************)
(* SearchIndexHashMap                                                      *)
(***************************************************************************)
HashNew == [type |-> "hash", index |-> EmptyMap]

HashInsertInto(self, primary_id, attribute_value) ==
    [self EXCEPT !.index = MapInsert(self.index, primary_id, attribute_value)]

\* Mutation: a payload that does not parse matches nothing.
HashSearchLenient(self, q) ==
    CASE q.kind = "Exact" ->
            LET value == string_to_payload_type(q.v1)
            IN  IF ~value.ok THEN Ok({})
                ELSE Ok(MapGet(self.index, value.v))
      [] OTHER -> Err("UnsupportedQuery")

HashSearch(self, q) ==
    CASE q.kind = "Exact" ->
            LET value == string_to_payload_type(q.v1)
            IN  IF ~value.ok THEN Err(value.err)
                ELSE Ok(MapGet(self.index, value.v))
      [] OTHER -> Err("UnsupportedQuery")

(***************************************************************************)
(* HashSetPrefixTree and SearchIndexPrefixTree.  nodes and values are the  *)
(* two vectors of the tree; node ids and value ids count from 0 as in the  *)
(* code, so vector element i is at position i + 1 of the sequence.         *)
(***************************************************************************)
None == [some |-> FALSE, v |-> 0]

Some(x) == [some |-> TRUE, v |-> x]

\* The characters of the model in the order of char::cmp (code points).
CharOrder ==
    <<" ", "+", ",", "-", "0", "1", "2", "3", "4", "5", "6", "7", "8", "9",
      ":", "<", "=", ">", "a", "b", "h", "p", "r", "x", "z">>

CharCode(c) == CHOOSE i \in 1..Len(CharOrder) : CharOrder[i] = c

TreeNodeNew(value) == [value |-> value, children |-> <<>>]

\* slice::binary_search_by(|x| x.0.cmp(key)): the index found, or None.
RECURSIVE BinarySearch(_, _, _, _)
BinarySearch(children, key, left, right) ==
    IF left >= right THEN None
    ELSE LET mid == left + ((right - left) \div 2)
             k == CharCode(children[mid + 1][1])
         IN  IF k < CharCode(key) THEN BinarySearch(children, key, mid + 1, right)
             ELSE IF k > CharCode(key) THEN BinarySearch(children, key, left, mid)
             ELSE Some(mid)

find_child(node, key) ==
    LET idx == BinarySearch(node.children, key, 0, Len(node.children))
    IN  IF idx.some THEN Some(node.children[idx.v + 1][2]) ELSE None

\* slice::sort_by(|a, b| a.0.cmp(&b.0)): a stable sort on the character.
RECURSIVE SortedInsert(_, _)
SortedInsert(sorted, e) ==
    IF sorted = <<>> THEN <<e>>
    ELSE IF CharCode(sorted[Len(sorted)][1]) <= CharCode(e[1]) THEN Append(sorted, e)
    ELSE Append(SortedInsert(SubSeq(sorted, 1, Len(sorted) - 1), e), sorted[Len(sorted)])

RECURSIVE SortBy(_, _, _)
SortBy(children, i, sorted) ==
    IF i > Len(children) THEN sorted
    ELSE SortBy(children, i + 1, SortedInsert(sorted, children[i]))

\* Mutation: the new edge is pushed and the edge list is not sorted.
insert_child_unsorted(node, key, child_id) ==
    [node EXCEPT !.children = Append(node.children, <<key, child_id>>)]

insert_child(node, key, child_id) ==
    [node EXCEPT !.children = SortBy(Append(node.children, <<key, child_id>>), 1, <<>>)]

TreeNew == [nodes |-> <<TreeNodeNew(None)>>, values |-> <<>>]

\* The walk of insert over key.chars(): the tree with the nodes it created
\* and the id of the node reached.
RECURSIVE InsertWalk(_, _, _, _)
InsertWalk(tree, key, i, node_id) ==
    IF i > Len(key) THEN [tree |-> tree, node_id |-> node_id]
    ELSE LET found == find_child(tree.nodes[node_id + 1], key[i])
         IN  IF found.some THEN InsertWalk(tree, key, i + 1, found.v)
             ELSE LET new_node_id == Len(tree.nodes)
                      pushed == Append(tree.nodes, TreeNodeNew(None))
                      linked == [pushed EXCEPT ![node_id + 1] =
                                    insert_child(@, key[i], new_node_id)]
                  IN  InsertWalk([tree EXCEPT !.nodes = linked], key, i + 1,
                                 new_node_id)

\* Mutation: every insert pushes a new posting, also when the node has one.
TreeInsertAlwaysPush(tree, key, value) ==
    LET walk == InsertWalk(tree, key, 1, 0)
        t == walk.tree
        values == Append(t.values, {value})
    IN  [nodes |-> [t.nodes EXCEPT ![walk.node_id + 1].value = Some(Len(values) - 1)],
         values |-> values]

TreeInsert(tree, key, value) ==
    LET walk == InsertWalk(tree, key, 1, 0)
        t == walk.tree
        node == t.nodes[walk.node_id + 1]
        values == IF node.value.some
                  THEN [t.values EXCEPT ![node.value.v + 1] = @ \cup {value}]
                  ELSE Append(t.values, {value})
        value_id == IF node.value.some THEN node.value.v ELSE Len(values) - 1
    IN  [nodes |-> [t.nodes EXCEPT ![walk.node_id + 1].value = Some(value_id)],
         values |-> values]

\* Mutation: a key that leaves the tree ends at the last node it reached.
RECURSIVE FindWalkLenient(_, _, _, _)
FindWalkLenient(tree, key, i, node_id) ==
    IF i > Len(key) THEN Some(node_id)
    ELSE LET found == find_child(tree.nodes[node_id + 1], key[i])
         IN  IF found.some THEN FindWalkLenient(tree, key, i + 1, found.v)
             ELSE Some(node_id)

RECURSIVE FindWalk(_, _, _, _)
FindWalk(tree, key, i, node_id) ==
    IF i > Len(key) THEN Some(node_id)
    ELSE LET found == find_child(tree.nodes[node_id + 1], key[i])
         IN  IF found.some THEN FindWalk(tree, key, i + 1, found.v) ELSE None

find_node(tree, key) ==
    IF tree.nodes = <<>> THEN None ELSE FindWalk(tree, key, 1, 0)

TreeGet(tree, key) ==
    LET node_id == find_node(tree, key)
    IN  IF ~node_id.some THEN None
        ELSE LET value_id == tree.nodes[node_id.v + 1].value
             IN  IF ~value_id.some THEN None
                 ELSE Some(tree.values[value_id.v + 1])

ChildIds(node) == [i \in 1..Len(node.children) |-> node.children[i][2]]

\* The loop of get_prefix over the queue node_ids.
RECURSIVE PrefixLoop(_, _, _)
PrefixLoop(tree, node_ids, result_set) ==
    IF node_ids = <<>> THEN result_set
    ELSE LET node == tree.nodes[Head(node_ids) + 1]
         IN  PrefixLoop(tree, Tail(node_ids) \o ChildIds(node),
                        IF node.value.some
                        THEN result_set \cup tree.values[node.value.v + 1]
                        ELSE result_set)

\* Mutation: only the posting of the node reached, no traversal below it.
get_prefix_node_only(tree, prefix) ==
    LET node_id == find_node(tree, prefix)
    IN  IF ~node_id.some THEN None
        ELSE LET value == tree.nodes[node_id.v + 1].value
             IN  Some(IF value.some THEN tree.values[value.v + 1] ELSE {})

get_prefix(tree, prefix) ==
    LET node_id == find_node(tree, prefix)
    IN  IF ~node_id.some THEN None
        ELSE Some(PrefixLoop(tree, <<node_id.v>>, {}))

unwrap_or_default(opt) == IF opt.some THEN opt.v ELSE {}

PrefixNew == [type |-> "prefix", index |-> TreeNew]

PrefixInsertInto(self, primary_id, attribute_value) ==
    [self EXCEPT !.index = TreeInsert(self.index, attribute_value, primary_id)]

\* Mutation: a variant the index does not handle matches nothing.
PrefixSearchSilent(self, q) ==
    CASE q.kind = "Exact" -> Ok(unwrap_or_default(TreeGet(self.index, q.v1)))
      [] q.kind = "Prefix" -> Ok(unwrap_or_default(get_prefix(self.index, q.v1)))
      [] OTHER -> Ok({})

PrefixSearch(self, q) ==
    CASE q.kind = "Exact" -> Ok(unwrap_or_default(TreeGet(self.index, q.v1)))
      [] q.kind = "Prefix" -> Ok(unwrap_or_default(get_prefix(self.index, q.v1)))
      [] OTHER -> Err("UnsupportedQuery")

(***************************************************************************)
(* SearchEngine: indices maps the registered names to the boxed indices.   *)
(* An evaluation is reported with what the caller gets (out) and with what *)
(* it did: the leaves search was called on, in order, and the number of    *)
(* direct children the top-level call evaluated.                           *)
(***************************************************************************)
EngineNew == [n \in {} |-> BTreeNew]

\* Mutation: a name that is bound already keeps its index.
add_index_keep_first(indices, name, index) ==
    [n \in (DOMAIN indices) \cup {name} |->
        IF n \in DOMAIN indices THEN indices[n] ELSE index]

add_index(indices, name, index) ==
    [n \in (DOMAIN indices) \cup {name} |-> IF n = name THEN index ELSE indices[n]]

\* The capability flags of query.rs.
SUPPORTS_EXACT == 1

SUPPORTS_PREFIX == 2

SUPPORTS_INRANGE == 4

SUPPORTS_OUTRANGE == 8

SUPPORTS_MINIMUM == 16

SUPPORTS_MAXIMUM == 32

\* DummyIndex of the engine's tests: a fixed result and a declared capability.
DummyNew(vals) ==
    [type |-> "dummy", fixed_values |-> vals, supported_queries |-> SUPPORTS_EXACT]

DummySupports(sup) ==
    [type |-> "dummy", fixed_values |-> {}, supported_queries |-> sup]

DummySearch(self, q) == Ok(self.fixed_values)

\* index.search(query) through the SearchIndex trait object.
IndexSearch(index, q) ==
    CASE index.type = "btree" -> BTreeSearch(index, q)
      [] index.type = "hash" -> HashSearch(index, q)
      [] index.type = "prefix" -> PrefixSearch(index, q)
      [] index.type = "dummy" -> DummySearch(index, q)

\* Mutation: an unknown attribute matches nothing instead of failing.
SearchLeafSilent(indices, q) ==
    IF q.attr \notin DOMAIN indices THEN Ok({})
    ELSE IndexSearch(indices[q.attr], q)

SearchLeaf(indices, q) ==
    IF q.attr \notin DOMAIN indices THEN Err("UnknownAttribute")
    ELSE IndexSearch(indices[q.attr], q)

\* Mutation: the accumulator is overwritten by the last child.
OrAccumulateLast(result_set, attribute_set) == attribute_set

OrAccumulate(result_set, attribute_set) == result_set \cup attribute_set

\* Mutation: the first child does not seed the accumulator.
AndAccumulateNoSeed(i, result_set, attribute_set) == result_set \cap attribute_set

AndAccumulate(i, result_set, attribute_set) ==
    IF i = 1 THEN attribute_set ELSE result_set \cap attribute_set

\* Mutation: the operands of the difference are swapped.
ExcludeAccumulateSwapped(result_set, attribute_set) == attribute_set \ result_set

ExcludeAccumulate(result_set, attribute_set) == result_set \ attribute_set

\* Mutation: the early return is taken one element too soon.
AndShortCircuitAtOne(result_set) == Cardinality(result_set) <= 1

\* Mutation: an empty accumulator does not end the loop.
AndShortCircuitNever(result_set) == FALSE

AndShortCircuit(result_set) == result_set = {}

ExcludeShortCircuit(result_set) == result_set = {}

Evaluation(out, leaves, children) ==
    [out |-> out, leaves |-> leaves, children |-> children]

RECURSIVE Search(_, _)
RECURSIVE OrLoop(_, _, _, _, _)
RECURSIVE AndLoop(_, _, _, _, _)
RECURSIVE ExcludeLoop(_, _, _, _, _)

\* Mutation: a failing child does not end the loop; the last failure wins.
RECURSIVE OrLoopLastError(_, _, _, _, _)
OrLoopLastError(indices, vec, i, result_set, leaves) ==
    IF i > Len(vec) THEN Evaluation(Ok(result_set), leaves, Len(vec))
    ELSE LET pred == Search(indices, vec[i])
             rest == OrLoopLastError(indices, vec, i + 1,
                         OrAccumulate(result_set, pred.out.set), leaves \o pred.leaves)
         IN  IF pred.out.kind # "Ok" /\ rest.out.kind = "Ok"
             THEN Evaluation(pred.out, rest.leaves, i)
             ELSE rest

OrLoop(indices, vec, i, result_set, leaves) ==
    IF i > Len(vec) THEN Evaluation(Ok(result_set), leaves, Len(vec))
    ELSE LET pred == Search(indices, vec[i])
         IN  IF pred.out.kind # "Ok"
             THEN Evaluation(pred.out, leaves \o pred.leaves, i)
             ELSE OrLoop(indices, vec, i + 1,
                         OrAccumulate(result_set, pred.out.set), leaves \o pred.leaves)

\* Mutation: a conjunction without children yields every id.
AndLoopEmptyIsAll(indices, vec, i, result_set, leaves) ==
    IF vec = <<>> THEN Evaluation(Ok(Ids), leaves, 0)
    ELSE IF i > Len(vec) THEN Evaluation(Ok(result_set), leaves, Len(vec))
    ELSE LET pred == Search(indices, vec[i])
             next_set == AndAccumulate(i, result_set, pred.out.set)
         IN  IF pred.out.kind # "Ok"
             THEN Evaluation(pred.out, leaves \o pred.leaves, i)
             ELSE IF AndShortCircuit(next_set)
             THEN Evaluation(Ok(next_set), leaves \o pred.leaves, i)
             ELSE AndLoop(indices, vec, i + 1, next_set, leaves \o pred.leaves)

AndLoop(indices, vec, i, result_set, leaves) ==
    IF i > Len(vec) THEN Evaluation(Ok(result_set), leaves, Len(vec))
    ELSE LET pred == Search(indices, vec[i])
             next_set == AndAccumulate(i, result_set, pred.out.set)
         IN  IF pred.out.kind # "Ok"
             THEN Evaluation(pred.out, leaves \o pred.leaves, i)
             ELSE IF AndShortCircuit(next_set)
             THEN Evaluation(Ok(next_set), leaves \o pred.leaves, i)
             ELSE AndLoop(indices, vec, i + 1, next_set, leaves \o pred.leaves)

\* The children counted are the base and the subtractors evaluated so far.
ExcludeLoop(indices, exclude, i, result_set, leaves) ==
    IF i > Len(exclude) THEN Evaluation(Ok(result_set), leaves, 1 + Len(exclude))
    ELSE LET pred == Search(indices, exclude[i])
             next_set == ExcludeAccumulate(result_set, pred.out.set)
         IN  IF pred.out.kind # "Ok"
             THEN Evaluation(pred.out, leaves \o pred.leaves, 1 + i)
             ELSE IF ExcludeShortCircuit(next_set)
             THEN Evaluation(Ok(next_set), leaves \o pred.leaves, 1 + i)
             ELSE ExcludeLoop(indices, exclude, i + 1, next_set, leaves \o pred.leaves)

\* Mutation: an empty base is returned before any subtractor is looked at.
SearchExcludeEmptyBaseFirst(indices, base, exclude) ==
    LET first == Search(indices, base)
    IN  IF first.out.kind # "Ok" \/ first.out.set = {}
        THEN Evaluation(first.out, first.leaves, 1)
        ELSE ExcludeLoop(indices, exclude, 1, first.out.set, first.leaves)

\* Mutation: the subtractors are ignored.
SearchExcludeBaseOnly(indices, base, exclude) == Search(indices, base)

SearchExclude(indices, base, exclude) ==
    LET first == Search(indices, base)
    IN  IF first.out.kind # "Ok" THEN Evaluation(first.out, first.leaves, 1)
        ELSE ExcludeLoop(indices, exclude, 1, first.out.set, first.leaves)

Search(indices, q) ==
    CASE IsLeaf(q) -> Evaluation(SearchLeaf(indices, q), <<q>>, 0)
      [] q.kind = "Or" -> OrLoop(indices, q.children, 1, {}, <<>>)
      [] q.kind = "And" -> AndLoop(indices, q.children, 1, {}, <<>>)
      [] q.kind = "Exclude" -> SearchExclude(indices, q.base, q.children)

(***************************************************************************)
(* QueryLexer.  The position pos is the index of the character char_it     *)
(* would yield next; Len(s) + 1 when the input is exhausted.               *)
(***************************************************************************)
AttributeToken(is_include, attribute, values) ==
    [type |-> "Attribute", include |-> is_include, name |-> attribute,
     values |-> values, text |-> <<>>]

FreetextToken(text) ==
    [type |-> "Freetext", include |-> FALSE, name |-> <<>>,
     values |-> <<>>, text |-> text]

IsWhitespace(c) == c \in {" ", "\t", "\n"}

IsAlphanumeric(c) ==
    c \in {"a", "b", "c", "d", "e", "f", "g", "h", "i", "j", "k", "l", "m",
           "n", "o", "p", "q", "r", "s", "t", "u", "v", "w", "x", "y", "z",
           "A", "B", "C", "D", "E", "F", "G", "H", "I", "J", "K", "L", "M",
           "N", "O", "P", "Q", "R", "S", "T", "U", "V", "W", "X", "Y", "Z",
           "0", "1", "2", "3", "4", "5", "6", "7", "8", "9"}

RECURSIVE skip_whitespace(_, _)
skip_whitespace(s, pos) ==
    IF pos <= Len(s) /\ IsWhitespace(s[pos]) THEN skip_whitespace(s, pos + 1)
    ELSE pos

\* Mutation: only the blank ends a freetext, other whitespace does not.
RECURSIVE read_freetext_blank_only(_, _, _)
read_freetext_blank_only(s, start_idx, pos) ==
    IF pos > Len(s) THEN [token |-> FreetextToken(SubSeq(s, start_idx, Len(s))), pos |-> pos]
    ELSE IF s[pos] = " "
    THEN [token |-> FreetextToken(SubSeq(s, start_idx, pos - 1)), pos |-> pos]
    ELSE read_freetext_blank_only(s, start_idx, pos + 1)

RECURSIVE read_freetext(_, _, _)
read_freetext(s, start_idx, pos) ==
    IF pos > Len(s) THEN [token |-> FreetextToken(SubSeq(s, start_idx, Len(s))), pos |-> pos]
    ELSE IF IsWhitespace(s[pos])
    THEN [token |-> FreetextToken(SubSeq(s, start_idx, pos - 1)), pos |-> pos]
    ELSE read_freetext(s, start_idx, pos + 1)

RECURSIVE read_attribute_index(_, _, _)
read_attribute_index(s, start_idx, pos) ==
    IF pos > Len(s) THEN [name |-> <<>>, ok |-> FALSE, pos |-> pos]
    ELSE IF s[pos] = ":" \/ ~IsAlphanumeric(s[pos])
    THEN [name |-> SubSeq(s, start_idx, pos - 1), ok |-> s[pos] = ":", pos |-> pos]
    ELSE read_attribute_index(s, start_idx, pos + 1)

\* Mutation: the value before a comma is pushed also when it is empty.
RECURSIVE read_attribute_values_keep_empty(_, _, _, _)
read_attribute_values_keep_empty(s, value_start_idx, pos, values) ==
    IF pos > Len(s)
    THEN [values |-> IF value_start_idx <= Len(s)
                     THEN Append(values, SubSeq(s, value_start_idx, Len(s)))
                     ELSE values,
          pos |-> pos]
    ELSE IF s[pos] = "," \/ IsWhitespace(s[pos])
    THEN LET pushed == Append(values, SubSeq(s, value_start_idx, pos - 1))
         IN  IF IsWhitespace(s[pos]) THEN [values |-> pushed, pos |-> pos]
             ELSE read_attribute_values_keep_empty(s, pos + 1, pos + 1, pushed)
    ELSE read_attribute_values_keep_empty(s, value_start_idx, pos + 1, values)

RECURSIVE read_attribute_values(_, _, _, _)
read_attribute_values(s, value_start_idx, pos, values) ==
    IF pos > Len(s)
    THEN [values |-> IF value_start_idx <= Len(s)
                     THEN Append(values, SubSeq(s, value_start_idx, Len(s)))
                     ELSE values,
          pos |-> pos]
    ELSE IF s[pos] = "," \/ IsWhitespace(s[pos])
    THEN LET pushed == IF value_start_idx < pos
                       THEN Append(values, SubSeq(s, value_start_idx, pos - 1))
                       ELSE values
         IN  IF IsWhitespace(s[pos]) THEN [values |-> pushed, pos |-> pos]
             ELSE read_attribute_values(s, pos + 1, pos + 1, pushed)
    ELSE read_attribute_values(s, value_start_idx, pos + 1, values)

\* Mutation: a sign directly followed by a colon is a selector too.
read_attribute_any_name(s, pos) ==
    LET start_idx == pos
        first_char == s[pos]
        idx == read_attribute_index(s, start_idx + 1, pos + 1)
    IN  IF ~idx.ok THEN read_freetext(s, start_idx, idx.pos)
        ELSE LET colon_idx == idx.pos
                 vals == read_attribute_values(s, colon_idx + 1, colon_idx + 1, <<>>)
             IN  [token |-> AttributeToken(first_char = "+", idx.name, vals.values),
                  pos |-> vals.pos]

read_attribute(s, pos) ==
    LET start_idx == pos
        first_char == s[pos]
        idx == read_attribute_index(s, start_idx + 1, pos + 1)
    IN  IF ~idx.ok \/ idx.name = <<>> THEN read_freetext(s, start_idx, idx.pos)
        ELSE LET colon_idx == idx.pos
                 vals == read_attribute_values(s, colon_idx + 1, colon_idx + 1, <<>>)
             IN  [token |-> AttributeToken(first_char = "+", idx.name, vals.values),
                  pos |-> vals.pos]

\* next_token after skip_whitespace, for an input that is not exhausted.
next_token(s, start_idx) ==
    IF s[start_idx] = "+" \/ s[start_idx] = "-" THEN read_attribute(s, start_idx)
    ELSE read_freetext(s, start_idx, start_idx)

\* The tokens the iterator yields from position pos on.
RECURSIVE LexFrom(_, _)
LexFrom(s, pos) ==
    LET start_idx == skip_whitespace(s, pos)
    IN  IF start_idx > Len(s) THEN <<>>
        ELSE LET t == next_token(s, start_idx)
             IN  <<t.token>> \o LexFrom(s, t.pos)

QueryLexer(query_str) == LexFrom(query_str, 1)

(***************************************************************************)
(* SearchEngine::query_from_str                                            *)
(***************************************************************************)
\* (supported & flag) != 0 for a flag that is a single bit.
Supports(supported, flag) == (supported \div flag) % 2 = 1

BTreeSupportedQueries ==
    SUPPORTS_EXACT + SUPPORTS_INRANGE + SUPPORTS_MINIMUM + SUPPORTS_MAXIMUM
        + SUPPORTS_OUTRANGE

HashSupportedQueries == SUPPORTS_EXACT

PrefixSupportedQueries == SUPPORTS_EXACT + SUPPORTS_PREFIX

supported_queries(index) ==
    CASE index.type = "btree" -> BTreeSupportedQueries
      [] index.type = "hash" -> HashSupportedQueries
      [] index.type = "prefix" -> PrefixSupportedQueries
      [] index.type = "dummy" -> index.supported_queries

StartsWith(v, c) == Len(v) >= 1 /\ v[1] = c

Rest(v) == SubSeq(v, 2, Len(v))

Contains(v, c) == \E i \in 1..Len(v) : v[i] = c

\* v.split(c): the pieces between the occurrences of c, empty ones kept.
RECURSIVE SplitFrom(_, _, _, _)
SplitFrom(v, c, start, i) ==
    IF i > Len(v) THEN <<SubSeq(v, start, Len(v))>>
    ELSE IF v[i] = c THEN <<SubSeq(v, start, i - 1)>> \o SplitFrom(v, c, i + 1, i + 1)
    ELSE SplitFrom(v, c, start, i + 1)

\* Mutation: the empty pieces are left out.
SplitSkipEmpty(v, c) ==
    LET Filled(piece) == piece # <<>>
    IN  SelectSeq(SplitFrom(v, c, 1, 1), Filled)

Split(v, c) == SplitFrom(v, c, 1, 1)

\* Mutation: the operator symbols of Minimum and Maximum are swapped.
ValueToQuerySwapped(supported, attr, v) ==
    IF Supports(supported, SUPPORTS_MINIMUM) /\ StartsWith(v, "<")
    THEN Minimum(attr, Rest(v))
    ELSE IF Supports(supported, SUPPORTS_MAXIMUM) /\ StartsWith(v, ">")
    THEN Maximum(attr, Rest(v))
    ELSE IF Supports(supported, SUPPORTS_EXACT) /\ StartsWith(v, "=")
    THEN Exact(attr, Rest(v))
    ELSE IF Supports(supported, SUPPORTS_INRANGE) /\ Contains(v, "-")
            /\ Len(Split(v, "-")) = 2
    THEN InRange(attr, Split(v, "-")[1], Split(v, "-")[2])
    ELSE IF Supports(supported, SUPPORTS_PREFIX) THEN Prefix(attr, v)
    ELSE Exact(attr, v)

\* Mutation: the infix '-' is tried before the operator prefixes.
ValueToQueryRangeFirst(supported, attr, v) ==
    IF Supports(supported, SUPPORTS_INRANGE) /\ Contains(v, "-")
            /\ Len(Split(v, "-")) = 2
    THEN InRange(attr, Split(v, "-")[1], Split(v, "-")[2])
    ELSE IF Supports(supported, SUPPORTS_MINIMUM) /\ StartsWith(v, ">")
    THEN Minimum(attr, Rest(v))
    ELSE IF Supports(supported, SUPPORTS_MAXIMUM) /\ StartsWith(v, "<")
    THEN Maximum(attr, Rest(v))
    ELSE IF Supports(supported, SUPPORTS_EXACT) /\ StartsWith(v, "=")
    THEN Exact(attr, Rest(v))
    ELSE IF Supports(supported, SUPPORTS_PREFIX) THEN Prefix(attr, v)
    ELSE Exact(attr, v)

ValueToQuery(supported, attr, v) ==
    IF Supports(supported, SUPPORTS_MINIMUM) /\ StartsWith(v, ">")
    THEN Minimum(attr, Rest(v))
    ELSE IF Supports(supported, SUPPORTS_MAXIMUM) /\ StartsWith(v, "<")
    THEN Maximum(attr, Rest(v))
    ELSE IF Supports(supported, SUPPORTS_EXACT) /\ StartsWith(v, "=")
    THEN Exact(attr, Rest(v))
    ELSE IF Supports(supported, SUPPORTS_INRANGE) /\ Contains(v, "-")
            /\ Len(Split(v, "-")) = 2
    THEN InRange(attr, Split(v, "-")[1], Split(v, "-")[2])
    ELSE IF Supports(supported, SUPPORTS_PREFIX) THEN Prefix(attr, v)
    ELSE Exact(attr, v)

Compiled(str, q, freetexts) ==
    [kind |-> "Ok", str |-> str, query |-> q, freetexts |-> freetexts, err |-> "None"]

CompileError(str, e) ==
    [kind |-> "Err", str |-> str, query |-> NoQuery, freetexts |-> <<>>, err |-> e]

NoCompile ==
    [kind |-> "None", str |-> <<>>, query |-> NoQuery, freetexts |-> <<>>, err |-> "None"]

\* Mutation: a selector with one value is wrapped in Or as well.
RECURSIVE TokenLoopAlwaysOr(_, _, _, _, _, _, _)
TokenLoopAlwaysOr(indices, query_str, tokens, i, include, exclude, freetexts) ==
    IF i > Len(tokens)
    THEN LET base_query == And(include)
         IN  IF exclude # <<>>
             THEN Compiled(query_str, Exclude(base_query, exclude), freetexts)
             ELSE Compiled(query_str, base_query, freetexts)
    ELSE LET subquery == tokens[i]
         IN  IF subquery.type = "Freetext"
             THEN TokenLoopAlwaysOr(indices, query_str, tokens, i + 1, include, exclude,
                            Append(freetexts, subquery.text))
             ELSE IF subquery.name \notin DOMAIN indices
             THEN CompileError(query_str, "UnknownAttribute")
             ELSE LET supported == supported_queries(indices[subquery.name])
                      qs == [j \in 1..Len(subquery.values) |->
                                ValueToQuery(supported, subquery.name, subquery.values[j])]
                      q == Or(qs)
                  IN  IF Len(qs) < 1
                      THEN TokenLoopAlwaysOr(indices, query_str, tokens, i + 1,
                                     include, exclude, freetexts)
                      ELSE IF subquery.include
                      THEN TokenLoopAlwaysOr(indices, query_str, tokens, i + 1,
                                     Append(include, q), exclude, freetexts)
                      ELSE TokenLoopAlwaysOr(indices, query_str, tokens, i + 1,
                                     include, Append(exclude, q), freetexts)

\* Mutation: the And is wrapped in Exclude also without exclusions.
RECURSIVE TokenLoopAlwaysExclude(_, _, _, _, _, _, _)
TokenLoopAlwaysExclude(indices, query_str, tokens, i, include, exclude, freetexts) ==
    IF i > Len(tokens)
    THEN LET base_query == And(include)
         IN  IF TRUE
             THEN Compiled(query_str, Exclude(base_query, exclude), freetexts)
             ELSE Compiled(query_str, base_query, freetexts)
    ELSE LET subquery == tokens[i]
         IN  IF subquery.type = "Freetext"
             THEN TokenLoopAlwaysExclude(indices, query_str, tokens, i + 1, include, exclude,
                            Append(freetexts, subquery.text))
             ELSE IF subquery.name \notin DOMAIN indices
             THEN CompileError(query_str, "UnknownAttribute")
             ELSE LET supported == supported_queries(indices[subquery.name])
                      qs == [j \in 1..Len(subquery.values) |->
                                ValueToQuery(supported, subquery.name, subquery.values[j])]
                      q == IF Len(qs) = 1 THEN qs[1] ELSE Or(qs)
                  IN  IF Len(qs) < 1
                      THEN TokenLoopAlwaysExclude(indices, query_str, tokens, i + 1,
                                     include, exclude, freetexts)
                      ELSE IF subquery.include
                      THEN TokenLoopAlwaysExclude(indices, query_str, tokens, i + 1,
                                     Append(include, q), exclude, freetexts)
                      ELSE TokenLoopAlwaysExclude(indices, query_str, tokens, i + 1,
                                     include, Append(exclude, q), freetexts)

\* Mutation: a selector of an unknown attribute is skipped.
RECURSIVE TokenLoopSkipUnknown(_, _, _, _, _, _, _)
TokenLoopSkipUnknown(indices, query_str, tokens, i, include, exclude, freetexts) ==
    IF i > Len(tokens)
    THEN LET base_query == And(include)
         IN  IF exclude # <<>>
             THEN Compiled(query_str, Exclude(base_query, exclude), freetexts)
             ELSE Compiled(query_str, base_query, freetexts)
    ELSE LET subquery == tokens[i]
         IN  IF subquery.type = "Freetext"
             THEN TokenLoopSkipUnknown(indices, query_str, tokens, i + 1, include, exclude,
                            Append(freetexts, subquery.text))
             ELSE IF subquery.name \notin DOMAIN indices
             THEN TokenLoopSkipUnknown(indices, query_str, tokens, i + 1, include, exclude,
                                       freetexts)
             ELSE LET supported == supported_queries(indices[subquery.name])
                      qs == [j \in 1..Len(subquery.values) |->
                                ValueToQuery(supported, subquery.name, subquery.values[j])]
                      q == IF Len(qs) = 1 THEN qs[1] ELSE Or(qs)
                  IN  IF Len(qs) < 1
                      THEN TokenLoopSkipUnknown(indices, query_str, tokens, i + 1,
                                     include, exclude, freetexts)
                      ELSE IF subquery.include
                      THEN TokenLoopSkipUnknown(indices, query_str, tokens, i + 1,
                                     Append(include, q), exclude, freetexts)
                      ELSE TokenLoopSkipUnknown(indices, query_str, tokens, i + 1,
                                     include, Append(exclude, q), freetexts)

\* Mutation: freetext is collected in reverse order.
RECURSIVE TokenLoopFreetextFirst(_, _, _, _, _, _, _)
TokenLoopFreetextFirst(indices, query_str, tokens, i, include, exclude, freetexts) ==
    IF i > Len(tokens)
    THEN LET base_query == And(include)
         IN  IF exclude # <<>>
             THEN Compiled(query_str, Exclude(base_query, exclude), freetexts)
             ELSE Compiled(query_str, base_query, freetexts)
    ELSE LET subquery == tokens[i]
         IN  IF subquery.type = "Freetext"
             THEN TokenLoopFreetextFirst(indices, query_str, tokens, i + 1, include, exclude,
                            <<subquery.text>> \o freetexts)
             ELSE IF subquery.name \notin DOMAIN indices
             THEN CompileError(query_str, "UnknownAttribute")
             ELSE LET supported == supported_queries(indices[subquery.name])
                      qs == [j \in 1..Len(subquery.values) |->
                                ValueToQuery(supported, subquery.name, subquery.values[j])]
                      q == IF Len(qs) = 1 THEN qs[1] ELSE Or(qs)
                  IN  IF Len(qs) < 1
                      THEN TokenLoopFreetextFirst(indices, query_str, tokens, i + 1,
                                     include, exclude, freetexts)
                      ELSE IF subquery.include
                      THEN TokenLoopFreetextFirst(indices, query_str, tokens, i + 1,
                                     Append(include, q), exclude, freetexts)
                      ELSE TokenLoopFreetextFirst(indices, query_str, tokens, i + 1,
                                     include, Append(exclude, q), freetexts)

RECURSIVE TokenLoop(_, _, _, _, _, _, _)
TokenLoop(indices, query_str, tokens, i, include, exclude, freetexts) ==
    IF i > Len(tokens)
    THEN LET base_query == And(include)
         IN  IF exclude # <<>>
             THEN Compiled(query_str, Exclude(base_query, exclude), freetexts)
             ELSE Compiled(query_str, base_query, freetexts)
    ELSE LET subquery == tokens[i]
         IN  IF subquery.type = "Freetext"
             THEN TokenLoop(indices, query_str, tokens, i + 1, include, exclude,
                            Append(freetexts, subquery.text))
             ELSE IF subquery.name \notin DOMAIN indices
             THEN CompileError(query_str, "UnknownAttribute")
             ELSE LET supported == supported_queries(indices[subquery.name])
                      qs == [j \in 1..Len(subquery.values) |->
                                ValueToQuery(supported, subquery.name, subquery.values[j])]
                      q == IF Len(qs) = 1 THEN qs[1] ELSE Or(qs)
                  IN  IF Len(qs) < 1
                      THEN TokenLoop(indices, query_str, tokens, i + 1,
                                     include, exclude, freetexts)
                      ELSE IF subquery.include
                      THEN TokenLoop(indices, query_str, tokens, i + 1,
                                     Append(include, q), exclude, freetexts)
                      ELSE TokenLoop(indices, query_str, tokens, i + 1,
                                     include, Append(exclude, q), freetexts)

query_from_str(indices, query_str) ==
    TokenLoop(indices, query_str, QueryLexer(query_str), 1, <<>>, <<>>, <<>>)

(***************************************************************************)
(* The inputs of the model: payload texts and attribute names.             *)
(***************************************************************************)
RECURSIVE Dec(_)
Dec(n) ==
    IF n < 10 THEN <<Digits[n + 1]>>
    ELSE Dec(n \div 10) \o <<Digits[(n % 10) + 1]>>

NumberPayloads == {Dec(n) : n \in 0..(MaxVal + 1)}

OddPayloads ==
    {<<>>, <<"x">>, <<"+", "1">>, <<"0", "1">>, <<"-", "1">>, <<"2", "5", "6">>}

Payloads == NumberPayloads \cup OddPayloads

AttrR == <<"r">>

AttrH == <<"h">>

AttrZ == <<"z">>

PayloadPairs ==
    (NumberPayloads \X NumberPayloads)
    \cup (OddPayloads \X {<<"1">>})
    \cup ({<<"1">>} \X OddPayloads)

IndexQueries ==
    {[kind |-> k, attr |-> AttrR, v1 |-> p, v2 |-> <<>>] :
        k \in {"Exact", "Prefix", "Minimum", "Maximum"}, p \in Payloads}
    \cup {[kind |-> k, attr |-> AttrR, v1 |-> pp[1], v2 |-> pp[2]] :
        k \in {"InRange", "OutRange"}, pp \in PayloadPairs}
    \cup {Or(<<>>), And(<<>>), Exclude(Exact(AttrR, <<"0">>), <<>>)}

HashQueries ==
    {[kind |-> k, attr |-> a, v1 |-> p, v2 |-> <<>>] :
        k \in {"Exact", "Prefix", "Minimum", "Maximum"}, a \in {AttrR, AttrH}, p \in Payloads}
    \cup {[kind |-> k, attr |-> AttrH, v1 |-> p1, v2 |-> p2] :
        k \in {"InRange", "OutRange"}, p1 \in NumberPayloads, p2 \in NumberPayloads}
    \cup {Or(<<>>), And(<<>>), Exclude(Exact(AttrH, <<"0">>), <<>>)}

\* The arguments of the insert call just made, and whether the pair was
\* already in the index.
InsertCall(primary_id, attribute_value, present) ==
    [id |-> primary_id, value |-> attribute_value, present |-> present]

NoInsert == [id |-> 0, value |-> <<>>, present |-> FALSE]

\* Keys inserted into the prefix tree and payloads searched for.
PrefixKeys == {<<>>, <<"a">>, <<"b">>, <<"a", "b">>}

PrefixPayloads == PrefixKeys \cup {<<"x">>, <<"b", "a">>, <<"a", "b", "a">>}

PrefixQueries ==
    {[kind |-> k, attr |-> a, v1 |-> p, v2 |-> <<>>] :
        k \in {"Exact", "Prefix"}, a \in {AttrR}, p \in PrefixPayloads}
    \cup {[kind |-> k, attr |-> AttrR, v1 |-> <<"a">>, v2 |-> <<>>] :
        k \in {"Minimum", "Maximum"}}
    \cup {[kind |-> k, attr |-> AttrR, v1 |-> <<"a">>, v2 |-> <<"b">>] :
        k \in {"InRange", "OutRange"}}
    \cup {Exact(AttrH, <<"a">>), Prefix(AttrH, <<"a">>)}
    \cup {Or(<<>>), And(<<>>), Exclude(Exact(AttrR, <<"a">>), <<>>)}

\* Every variant of Query, with payloads of each sort.
CapabilityQueries ==
    {[kind |-> k, attr |-> AttrR, v1 |-> p, v2 |-> <<>>] :
        k \in {"Exact", "Prefix", "Minimum", "Maximum"},
        p \in {<<"1">>, <<"a">>}}
    \cup {[kind |-> k, attr |-> AttrR, v1 |-> p, v2 |-> <<"1">>] :
        k \in {"InRange", "OutRange"}, p \in {<<"1">>, <<"a">>}}
    \cup {Or(<<>>), And(<<>>), Exclude(Exact(AttrR, <<"1">>), <<>>),
          Or(<<Exact(AttrR, <<"1">>)>>), And(<<Exact(AttrR, <<"1">>)>>)}

\* Value strings of a selector: every text of the operator characters and
\* a payload character, up to MaxValueLen characters.
ValueChars == {">", "<", "=", "-", "1"}

ValueStrings ==
    UNION {[1..n -> ValueChars] : n \in 1..MaxValueLen}

\* The selector +r:v
ValueSelector(v) == <<"+", "r", ":">> \o v

ValueSelectors == {ValueSelector(v) : v \in ValueStrings}

\* Every capability bitmask.
AllMasks == 0..(2 * SUPPORTS_MAXIMUM - 1)

MaskedIndices == {DummySupports(sup) : sup \in AllMasks}

\* Whitespace-delimited runs a query string is made of: selectors with one,
\* several and no values, for inclusion and exclusion, a malformed selector
\* and a word.
TokenRuns ==
    { <<"+", "r", ":", "1">>,
      <<"+", "r", ":", "1", ",", "=", "2">>,
      <<"-", "r", ":", "a">>,
      <<"+", "h", ":">>,
      <<"-", "h", ":", "<", "1", ",", "2", "-", "3">>,
      <<"x">>,
      <<"+", "r">> }

RECURSIVE JoinRuns(_, _)
JoinRuns(runs, i) ==
    IF i > Len(runs) THEN <<>>
    ELSE IF i = Len(runs) THEN runs[i]
    ELSE runs[i] \o <<" ">> \o JoinRuns(runs, i + 1)

TokenStrings ==
    {JoinRuns(runs, 1) : runs \in UNION {[1..n -> TokenRuns] : n \in 0..MaxTokens}}

\* Indices of create_parser_engine: "zipcode" and "name".
CompilerIndices ==
    { DummySupports(SUPPORTS_EXACT + SUPPORTS_MINIMUM + SUPPORTS_MAXIMUM
                        + SUPPORTS_INRANGE),
      DummySupports(SUPPORTS_EXACT + SUPPORTS_PREFIX) }

\* The tokens a lexer produced for a string, as the caller collected them.
Lexed(str, tokens) == [done |-> TRUE, str |-> str, tokens |-> tokens]

NoLex == [done |-> FALSE, str |-> <<>>, tokens |-> <<>>]

\* Query strings for the lexer: every text of up to MaxLexLen characters
\* over the signs, a letter, the colon, another character and the blank.
LexChars == {"+", "-", "a", ":", ",", " ", "\t"}

LexStrings == UNION {[1..n -> LexChars] : n \in 0..MaxLexLen}

NoEval == [leaves |-> <<>>, children |-> 0]

\* The add_index call the registry has seen last.
AddCall(name, index, previous) ==
    [done |-> TRUE, name |-> name, index |-> index, previous |-> previous]

NoAdd == [done |-> FALSE, name |-> <<>>, index |-> None, previous |-> None]

\* The indices handed to add_index: each is built by inserts, as the
\* fixtures of the tests build theirs.
RECURSIVE InsertAll(_, _, _)
InsertAll(index, rows, i) ==
    IF i > Len(rows) THEN index
    ELSE InsertAll(
            IF index.type = "btree" THEN BTreeInsertInto(index, rows[i][1], rows[i][2])
            ELSE HashInsertInto(index, rows[i][1], rows[i][2]),
            rows, i + 1)

EngineIndices ==
    { InsertAll(BTreeNew, <<<<1, 1>>, <<2, 1>>, <<2, 2>>>>, 1),
      InsertAll(BTreeNew, <<<<1, 2>>>>, 1),
      InsertAll(HashNew, <<<<2, 1>>, <<1, 2>>, <<2, 1>>>>, 1),
      InsertAll(HashNew, <<<<1, 1>>, <<2, 1>>>>, 1) }

EngineNames == {AttrR, AttrH}

ChildQueries ==
    { Exact(AttrR, <<"1">>),
      Exact(AttrH, <<"1">>),
      Minimum(AttrR, <<"2">>),
      Exact(AttrH, <<"x">>),
      Or(<<Exact(AttrR, <<"2">>), Exact(AttrH, <<"2">>)>>),
      And(<<Exact(AttrH, <<"2">>), Exact(AttrZ, <<"1">>)>>) }

RECURSIVE SeqsUpTo(_, _)
SeqsUpTo(S, n) ==
    IF n = 0 THEN {<<>>}
    ELSE LET shorter == SeqsUpTo(S, n - 1)
         IN  shorter \cup {Append(t, x) : t \in {u \in shorter : Len(u) = n - 1}, x \in S}

ChildLists == SeqsUpTo(ChildQueries, MaxChildren)

\* Ordered indices of every content of at most MaxInserts rows.
RECURSIVE SetToSeq(_)
SetToSeq(S) ==
    IF S = {} THEN <<>>
    ELSE LET x == CHOOSE y \in S : TRUE
         IN  <<x>> \o SetToSeq(S \ {x})

RangeIndices ==
    {InsertAll(BTreeNew, SetToSeq(rows), 1) :
        rows \in {r \in SUBSET (Ids \X Values) : Cardinality(r) <= MaxInserts}}

\* The selector +r:<lo,>hi
RangeSelector(lo, hi) == <<"+", "r", ":", "<">> \o lo \o <<",", ">">> \o hi

RangeStrings ==
    {RangeSelector(lo, hi) : lo \in NumberPayloads, hi \in NumberPayloads}
    \cup { <<>>,
           <<"+", "r", ":", "1", "-", "2", " ", "x">>,
           <<"+", "z", ":", "1">>,
           <<"-", "r", ":", "=", "1", ",", "x">> }

RangeQueries ==
    {OutRange(AttrR, lo, hi) : lo \in NumberPayloads, hi \in NumberPayloads}

LeafQueries ==
    {[kind |-> k, attr |-> a, v1 |-> p, v2 |-> <<>>] :
        k \in {"Exact", "Prefix", "Minimum", "Maximum"},
        a \in {AttrR, AttrH, AttrZ}, p \in {<<"1">>, <<"x">>}}
    \cup {[kind |-> k, attr |-> a, v1 |-> <<"1">>, v2 |-> p] :
        k \in {"InRange", "OutRange"},
        a \in {AttrR, AttrH, AttrZ}, p \in {<<"2">>, <<"x">>}}

\* Keys whose first characters give a node several edges, in every order
\* of arrival.
EdgeChars == {"a", "b", "p", "x", "z"}

EdgeKeys ==
    {<<"a">>, <<"p">>, <<"x">>, <<"x", "b">>, <<"x", "a">>}

\* Selectors over two ordered indices with rows, a freetext word, a selector
\* without values and one whose payload is no number.
RoundTripRuns ==
    { <<"+", "r", ":", "1", ",", "2">>,
      <<"+", "h", ":", ">", "1">>,
      <<"-", "r", ":", "2">>,
      <<"-", "h", ":", "1", ",", "0">>,
      <<"+", "r", ":">>,
      <<"-", "r", ":", "a">>,
      <<"x">> }

RoundTripStrings ==
    {JoinRuns(runs, 1) : runs \in UNION {[1..n -> RoundTripRuns] : n \in 0..MaxTokens}}

RoundTripIndices ==
    { InsertAll(BTreeNew, <<<<1, 1>>, <<2, 1>>, <<2, 2>>>>, 1),
      InsertAll(BTreeNew, <<<<1, 2>>, <<1, 0>>>>, 1) }

\* Two names that differ in letter case only, and what is asked of them.
AttrN == <<"n">>

AttrUpperN == <<"N">>

RegistryNames == {AttrN, AttrUpperN}

RegistryQueries ==
    {Exact(a, p) : a \in RegistryNames \cup {AttrZ}, p \in {<<"1">>, <<"2">>}}

RegistryString(sign, a, p) == <<sign>> \o a \o <<":">> \o p

RegistryStrings ==
    {RegistryString(sign, a, p) :
        sign \in {"+", "-"}, a \in RegistryNames \cup {AttrZ}, p \in {<<"1">>, <<"2">>}}

EngineQueries ==
    LeafQueries
    \cup {Or(vec) : vec \in ChildLists}
    \cup {And(vec) : vec \in ChildLists}
    \cup {Exclude(base, vec) : base \in ChildQueries,
                               vec \in {v \in ChildLists : Len(v) < MaxChildren}}

(***************************************************************************)
(* State and operations on the standalone indices.                         *)
(***************************************************************************)
Init ==
    /\ engine = EngineNew
    /\ btree = BTreeNew
    /\ hmap = HashNew
    /\ ptree = PrefixNew
    /\ inserted = [btree |-> {}, hash |-> {}, prefix |-> {}]
    /\ last = NoInsert
    /\ op = "new"
    /\ query = NoQuery
    /\ result = NoResult
    /\ evald = NoEval
    /\ compiled = NoCompile
    /\ lexed = NoLex
    /\ added = NoAdd

BTreeInsert ==
    \E primary_id \in Ids, attribute_value \in Values :
        /\ Cardinality(inserted.btree \cup {<<primary_id, attribute_value>>}) <= MaxInserts
        /\ btree' = BTreeInsertInto(btree, primary_id, attribute_value)
        /\ inserted' = [inserted EXCEPT !.btree = @ \cup {<<primary_id, attribute_value>>}]
        /\ last' = InsertCall(primary_id, attribute_value,
                               <<primary_id, attribute_value>> \in inserted.btree)
        /\ op' = "btree_insert"
        /\ query' = NoQuery
        /\ result' = NoResult
        /\ evald' = NoEval
        /\ UNCHANGED <<added, engine, hmap, compiled, ptree, lexed>>

BTreeSearchCall ==
    /\ result = NoResult
    /\ \E q \in IndexQueries :
        /\ last' = NoInsert
        /\ op' = "btree_search"
        /\ query' = q
        /\ result' = BTreeSearch(btree, q)
        /\ evald' = NoEval
        /\ UNCHANGED <<added, engine, btree, hmap, inserted, compiled, ptree, lexed>>

HashInsert ==
    \E primary_id \in Ids, attribute_value \in Values :
        /\ Cardinality(inserted.hash \cup {<<primary_id, attribute_value>>}) <= MaxInserts
        /\ hmap' = HashInsertInto(hmap, primary_id, attribute_value)
        /\ inserted' = [inserted EXCEPT !.hash = @ \cup {<<primary_id, attribute_value>>}]
        /\ last' = InsertCall(primary_id, attribute_value,
                               <<primary_id, attribute_value>> \in inserted.hash)
        /\ op' = "hash_insert"
        /\ query' = NoQuery
        /\ result' = NoResult
        /\ evald' = NoEval
        /\ UNCHANGED <<added, engine, btree, compiled, ptree, lexed>>

HashSearchCall ==
    /\ result = NoResult
    /\ \E q \in HashQueries :
        /\ last' = NoInsert
        /\ op' = "hash_search"
        /\ query' = q
        /\ result' = HashSearch(hmap, q)
        /\ evald' = NoEval
        /\ UNCHANGED <<added, engine, btree, hmap, inserted, compiled, ptree, lexed>>

PrefixInsertFrom(keys) ==
    /\ result = NoResult
    /\ \E primary_id \in Ids, attribute_value \in keys :
        /\ Cardinality(inserted.prefix \cup {<<primary_id, attribute_value>>}) <= MaxInserts
        /\ ptree' = PrefixInsertInto(ptree, primary_id, attribute_value)
        /\ inserted' = [inserted EXCEPT !.prefix = @ \cup {<<primary_id, attribute_value>>}]
        /\ last' = InsertCall(primary_id, attribute_value,
                               <<primary_id, attribute_value>> \in inserted.prefix)
        /\ op' = "prefix_insert"
        /\ query' = NoQuery
        /\ result' = NoResult
        /\ evald' = NoEval
        /\ UNCHANGED <<added, engine, btree, hmap, compiled, lexed>>

PrefixInsert == PrefixInsertFrom(PrefixKeys)

PrefixSearchCall ==
    /\ result = NoResult
    /\ \E q \in PrefixQueries :
        /\ last' = NoInsert
        /\ op' = "prefix_search"
        /\ query' = q
        /\ result' = PrefixSearch(ptree, q)
        /\ evald' = NoEval
        /\ UNCHANGED <<added, engine, btree, hmap, ptree, inserted, compiled, lexed>>

\* The caller is done with the value a search returned.
DropResult ==
    /\ result # NoResult
    /\ last' = NoInsert
    /\ op' = "idle"
    /\ query' = NoQuery
    /\ result' = NoResult
    /\ evald' = NoEval
    /\ compiled' = NoCompile
    /\ UNCHANGED <<added, engine, btree, hmap, inserted, ptree, lexed>>

\* QueryLexer::new(query_str).collect()
LexCall ==
    /\ ~lexed.done
    /\ \E query_str \in LexStrings :
        /\ lexed' = Lexed(query_str, QueryLexer(query_str))
        /\ op' = "lex"
        /\ UNCHANGED <<added, engine, btree, hmap, ptree, inserted, last, query, result, evald,
                       compiled>>

\* The caller is done with the tokens.
DropTokens ==
    /\ lexed.done
    /\ lexed' = NoLex
    /\ op' = "idle"
    /\ UNCHANGED <<added, engine, btree, hmap, ptree, inserted, last, query, result, evald,
                   compiled>>

\* engine.add_index(name, index).  The call is kept in added when the
\* specification follows the registrations, with the value HashMap::insert
\* returned (the index the name was bound to before) as previous.
AddIndexCall(names, indices, record) ==
    /\ result = NoResult
    /\ \E name \in names, index \in indices :
        /\ engine' = add_index(engine, name, index)
        /\ added' = IF record
                    THEN AddCall(name, index,
                                 IF name \in DOMAIN engine THEN Some(engine[name]) ELSE None)
                    ELSE NoAdd
        /\ last' = NoInsert
        /\ op' = "add_index"
        /\ query' = NoQuery
        /\ result' = NoResult
        /\ evald' = NoEval
        /\ compiled' = NoCompile
        /\ UNCHANGED <<btree, hmap, inserted, ptree, lexed>>

AddIndexFrom(names, indices) == AddIndexCall(names, indices, FALSE)

SearchOf(queries) ==
    /\ result = NoResult
    /\ \E q \in queries :
        /\ last' = NoInsert
        /\ op' = "search"
        /\ query' = q
        /\ LET run == Search(engine, q)
           IN  /\ result' = run.out
               /\ evald' = [leaves |-> run.leaves, children |-> run.children]
        /\ UNCHANGED <<added, engine, btree, hmap, inserted, compiled, ptree, lexed>>

\* let (q, _) = engine.query_from_str(text)?; engine.search(&q)
QueryStringOf(strings) ==
    /\ result = NoResult
    /\ \E query_str \in strings :
        /\ last' = NoInsert
        /\ op' = "query_str"
        /\ LET c == query_from_str(engine, query_str)
               run == Search(engine, c.query)
           IN  /\ compiled' = c
               /\ query' = c.query
               /\ IF c.kind = "Ok"
                  THEN /\ result' = run.out
                       /\ evald' = [leaves |-> run.leaves, children |-> run.children]
                  ELSE /\ result' = Err(c.err)
                       /\ evald' = NoEval
        /\ UNCHANGED <<added, engine, btree, hmap, inserted, ptree, lexed>>

AddIndex == AddIndexFrom(EngineNames, EngineIndices)

EngineSearch == SearchOf(EngineQueries)

AddMaskedIndex == AddIndexFrom({AttrR}, MaskedIndices)

ValueQueryString == QueryStringOf(ValueSelectors)

AddCompilerIndex == AddIndexFrom({AttrR, AttrH}, CompilerIndices)

TokenQueryString == QueryStringOf(TokenStrings)

AddRangeIndex == AddIndexFrom({AttrR}, RangeIndices)

RangeSearch == SearchOf(RangeQueries)

RangeQueryString == QueryStringOf(RangeStrings)

AddNamedIndex == AddIndexCall(RegistryNames, EngineIndices, TRUE)

RegistrySearch == SearchOf(RegistryQueries)

RegistryQueryString == QueryStringOf(RegistryStrings)

NextRegistry == AddNamedIndex \/ RegistrySearch \/ RegistryQueryString \/ DropResult

SpecRegistry == Init /\ [][NextRegistry]_vars

AddRoundTripIndex == AddIndexFrom({AttrR, AttrH}, RoundTripIndices)

RoundTripQueryString == QueryStringOf(RoundTripStrings)

NextRoundTrip == AddRoundTripIndex \/ RoundTripQueryString \/ DropResult

SpecRoundTrip == Init /\ [][NextRoundTrip]_vars

PrefixInsertEdges == PrefixInsertFrom(EdgeKeys)

NextEdges == PrefixInsertEdges

SpecEdges == Init /\ [][NextEdges]_vars

NextEngine == AddIndex \/ EngineSearch \/ DropResult

SpecEngine == Init /\ [][NextEngine]_vars

NextRange == AddRangeIndex \/ RangeSearch \/ RangeQueryString \/ DropResult

SpecRange == Init /\ [][NextRange]_vars

NextPrefix == PrefixInsert \/ PrefixSearchCall \/ DropResult

SpecPrefix == Init /\ [][NextPrefix]_vars

\* The three indices share no state: the model fills one of them at a time.
OneIndexInUse ==
    Cardinality({k \in DOMAIN inserted : inserted[k] # {}}) <= 1

\* index.search(query) on any of the three indices.
StandaloneIndex(type) ==
    CASE type = "btree" -> btree
      [] type = "hash" -> hmap
      [] type = "prefix" -> ptree

CapabilitySearch ==
    /\ result = NoResult
    /\ \E type \in {"btree", "hash", "prefix"}, q \in CapabilityQueries :
        /\ \A other \in DOMAIN inserted \ {type} : inserted[other] = {}
        /\ last' = NoInsert
        /\ op' = type \o "_search"
        /\ query' = q
        /\ result' = IndexSearch(StandaloneIndex(type), q)
        /\ evald' = NoEval
        /\ UNCHANGED <<added, engine, btree, hmap, ptree, inserted, compiled, lexed>>

NextIndices ==
    /\ \/ BTreeInsert
       \/ HashInsert
       \/ PrefixInsert
       \/ CapabilitySearch
       \/ DropResult
    /\ OneIndexInUse'

SpecIndices == Init /\ [][NextIndices]_vars

NextInserts ==
    /\ \/ BTreeInsert
       \/ HashInsert
       \/ PrefixInsert
    /\ OneIndexInUse'

SpecInserts == Init /\ [][NextInserts]_vars

NextValues == AddMaskedIndex \/ ValueQueryString \/ DropResult

SpecValues == Init /\ [][NextValues]_vars

NextCompile == AddCompilerIndex \/ TokenQueryString \/ DropResult

SpecCompile == Init /\ [][NextCompile]_vars

NextLexer == LexCall \/ DropTokens

SpecLexer == Init /\ [][NextLexer]_vars

NextBTree == BTreeInsert \/ BTreeSearchCall \/ DropResult

SpecBTree == Init /\ [][NextBTree]_vars

NextHash == HashInsert \/ HashSearchCall \/ DropResult

SpecHash == Init /\ [][NextHash]_vars


(***************************************************************************)
(* Properties of the evaluator (SpecEngine).                               *)
(***************************************************************************)
IsSearch == op = "search"

\* The children of a combinator in evaluation order (base first).
QueryChildren(q) ==
    IF q.kind = "Exclude" THEN <<q.base>> \o q.children ELSE q.children

ChildOut(q, i) == Search(engine, QueryChildren(q)[i]).out

AllChildrenOk(q) ==
    \A i \in 1..Len(QueryChildren(q)) : ChildOut(q, i).kind = "Ok"

\* C1: And of sub-queries that all succeed returns exactly the intersection
\* of their results; And([]) is empty and And([p]) is search(p).
C1_AndIsIntersection ==
    (IsSearch /\ query.kind = "And" /\ AllChildrenOk(query)) =>
        LET n == Len(query.children)
        IN  /\ result.kind = "Ok"
            /\ n = 0 => result.set = {}
            /\ n = 1 => result = ChildOut(query, 1)
            /\ n >= 1 => result.set =
                  {x \in ChildOut(query, 1).set :
                      \A i \in 1..n : x \in ChildOut(query, i).set}

C1_Witness ==
    /\ IsSearch /\ query.kind = "And" /\ AllChildrenOk(query)
    /\ Len(query.children) >= 2
    /\ result.set # {}
    /\ \E i \in 1..Len(query.children) : ChildOut(query, i).set # result.set

\* C2: Or of sub-queries that all succeed returns exactly the union of
\* their results; Or([]) is empty and Or([p]) is search(p).
C2_OrIsUnion ==
    (IsSearch /\ query.kind = "Or" /\ AllChildrenOk(query)) =>
        LET n == Len(query.children)
        IN  /\ result.kind = "Ok"
            /\ n = 0 => result.set = {}
            /\ n = 1 => result = ChildOut(query, 1)
            /\ result.set = UNION {ChildOut(query, i).set : i \in 1..n}

C2_Witness ==
    /\ IsSearch /\ query.kind = "Or" /\ AllChildrenOk(query)
    /\ Len(query.children) >= 2
    /\ \A i \in 1..Len(query.children) : ChildOut(query, i).set # result.set

\* C3: Exclude of a base and subtractors that all succeed returns exactly
\* the base result minus the union of the subtractor results; with no
\* subtractor it returns the base result.
C3_ExcludeIsDifference ==
    (IsSearch /\ query.kind = "Exclude" /\ AllChildrenOk(query)) =>
        LET k == Len(query.children)
            base == Search(engine, query.base).out
        IN  /\ result.kind = "Ok"
            /\ k = 0 => result = base
            /\ result.set = base.set \
                  UNION {Search(engine, query.children[i]).out.set : i \in 1..k}

C3_Witness ==
    /\ IsSearch /\ query.kind = "Exclude" /\ AllChildrenOk(query)
    /\ Len(query.children) >= 1
    /\ result.set # {}
    /\ result.set # Search(engine, query.base).out.set

\* Full evaluation: every child of every combinator is evaluated, the
\* first failure (left to right) is the outcome, no early return.
RECURSIVE FullEval(_, _)
FullEval(indices, q) ==
    IF IsLeaf(q) THEN SearchLeaf(indices, q)
    ELSE LET ch == QueryChildren(q)
             outs == [i \in 1..Len(ch) |-> FullEval(indices, ch[i])]
             failing == {i \in 1..Len(ch) : outs[i].kind # "Ok"}
         IN  IF failing # {}
             THEN outs[CHOOSE i \in failing : \A j \in failing : i <= j]
             ELSE CASE q.kind = "Or" ->
                          Ok(UNION {outs[i].set : i \in 1..Len(ch)})
                    [] q.kind = "And" ->
                          Ok(IF Len(ch) = 0 THEN {}
                             ELSE {x \in outs[1].set :
                                      \A i \in 1..Len(ch) : x \in outs[i].set})
                    [] q.kind = "Exclude" ->
                          Ok(outs[1].set \ UNION {outs[i].set : i \in 2..Len(ch)})

\* The top-level And or Exclude returned before its last child.
StoppedEarly ==
    /\ IsSearch /\ query.kind \in {"And", "Exclude"}
    /\ result.kind = "Ok"
    /\ evald.children < Len(QueryChildren(query))

\* C4 as stated: a short-circuited And or Exclude returns the outcome of
\* full evaluation.
C4_ShortCircuitEqualsFull ==
    StoppedEarly => result = FullEval(engine, query)

\* C4 as amended: a short-circuited And or Exclude returns the outcome of
\* full evaluation whenever full evaluation succeeds; when a child that was
\* not evaluated fails, the short-circuit returns the empty set instead of
\* that child's error.
C4_ShortCircuitEqualsFullIfOk ==
    StoppedEarly =>
        LET full == FullEval(engine, query)
        IN  IF full.kind = "Ok" THEN result = full ELSE result = Ok({})

C4_Witness ==
    /\ StoppedEarly
    /\ query.kind = "And"
    /\ evald.children >= 2
    /\ FullEval(engine, query).kind = "Ok"

\* C5: a leaf on an unregistered name fails with UnknownAttribute whatever
\* its variant and payload; on a registered name the outcome is the
\* outcome of that index's search.
C5_LeafDispatch ==
    (IsSearch /\ IsLeaf(query)) =>
        IF query.attr \notin DOMAIN engine
        THEN result = Err("UnknownAttribute")
        ELSE result = IF engine[query.attr].type = "btree"
                      THEN BTreeSearch(engine[query.attr], query)
                      ELSE HashSearch(engine[query.attr], query)

C5_Witness ==
    /\ IsSearch /\ IsLeaf(query)
    /\ DOMAIN engine # {}
    /\ query.attr \notin DOMAIN engine
    /\ query.kind = "InRange" /\ query.v2 = <<"x">>
    /\ result = Err("UnknownAttribute")

RECURSIVE ConcatLeaves(_, _)
ConcatLeaves(q, n) ==
    IF n = 0 THEN <<>>
    ELSE ConcatLeaves(q, n - 1) \o Search(engine, QueryChildren(q)[n]).leaves

\* C6: an error returned by And, Or or Exclude is the error of the leftmost
\* failing child (base before subtractors), nothing to the right of that
\* child is evaluated, and no result set comes with it.
C6_FirstErrorPropagates ==
    (IsSearch /\ query.kind \in {"And", "Or", "Exclude"} /\ result.kind = "Err") =>
        LET n == Len(QueryChildren(query))
            failing == {i \in 1..n : ChildOut(query, i).kind # "Ok"}
        IN  /\ failing # {}
            /\ LET first == CHOOSE i \in failing : \A j \in failing : i <= j
               IN  /\ result = ChildOut(query, first)
                   /\ evald.children = first
                   /\ evald.leaves = ConcatLeaves(query, first)
            /\ result.set = {}

C6_Witness ==
    /\ IsSearch /\ query.kind \in {"And", "Or", "Exclude"} /\ result.kind = "Err"
    /\ \E i, j \in 1..Len(QueryChildren(query)) :
          /\ i < j
          /\ ChildOut(query, i).kind = "Err"
          /\ ChildOut(query, j).kind = "Err"
          /\ ChildOut(query, i).err # ChildOut(query, j).err
          /\ \A h \in 1..(i - 1) : ChildOut(query, h).set # {}

(***************************************************************************)
(* Properties of the ordered-range index (SpecBTree) and of the hash index *)
(* (SpecHash).  inserted records the (id, value) pairs handed to insert.   *)
(***************************************************************************)
IdsWhere(rows, Matches(_)) == {row[1] : row \in {r \in rows : Matches(r[2])}}

Parses(s) == ParseV(s).ok

\* C7: on the ordered index InRange returns exactly the ids inserted with a
\* value in [lo, hi] and the empty set when lo > hi; Minimum returns the ids
\* with a value >= lo; Maximum returns the ids with a value <= hi.
C7_RangeLeaves ==
    /\ (op = "btree_search" /\ query.kind = "InRange"
            /\ Parses(query.v1) /\ Parses(query.v2)) =>
          LET lo == ParseV(query.v1).v
              hi == ParseV(query.v2).v
              InLoHi(v) == lo <= v /\ v <= hi
          IN  /\ result = Ok(IdsWhere(inserted.btree, InLoHi))
              /\ lo > hi => result = Ok({})
    /\ (op = "btree_search" /\ query.kind = "Minimum" /\ Parses(query.v1)) =>
          LET lo == ParseV(query.v1).v
              AtLeast(v) == v >= lo
          IN  result = Ok(IdsWhere(inserted.btree, AtLeast))
    /\ (op = "btree_search" /\ query.kind = "Maximum" /\ Parses(query.v1)) =>
          LET hi == ParseV(query.v1).v
              AtMost(v) == v <= hi
          IN  result = Ok(IdsWhere(inserted.btree, AtMost))

C7_Witness ==
    /\ op = "btree_search" /\ query.kind = "InRange"
    /\ Parses(query.v1) /\ Parses(query.v2)
    /\ \E a \in inserted.btree, b \in inserted.btree :
          /\ a[2] = ParseV(query.v2).v
          /\ a[2] >= ParseV(query.v1).v
          /\ b[2] > a[2]
          /\ a[1] \in result.set
          /\ b[1] \notin result.set

\* C8: on the ordered index OutRange with lo <= hi returns exactly the ids
\* inserted with a value < lo or > hi (a value equal to lo or hi does not
\* match), and the empty set when lo > hi.
C8_OutRangeLeaf ==
    (op = "btree_search" /\ query.kind = "OutRange"
        /\ Parses(query.v1) /\ Parses(query.v2)) =>
        LET lo == ParseV(query.v1).v
            hi == ParseV(query.v2).v
            Outside(v) == v < lo \/ v > hi
        IN  IF lo <= hi THEN result = Ok(IdsWhere(inserted.btree, Outside))
            ELSE result = Ok({})

C8_Witness ==
    /\ op = "btree_search" /\ query.kind = "OutRange"
    /\ Parses(query.v1) /\ Parses(query.v2)
    /\ ParseV(query.v1).v <= ParseV(query.v2).v
    /\ \E a \in inserted.btree, b \in inserted.btree :
          /\ a[2] \in {ParseV(query.v1).v, ParseV(query.v2).v}
          /\ a[1] \notin result.set
          /\ b[1] \in result.set

\* C10: on the hash index Exact returns exactly the ids inserted with the
\* value the payload parses to (the empty set when there is none) and fails
\* with MismatchedQueryType when the payload does not parse; the attribute
\* name of the leaf plays no part.
C10_HashExact ==
    (op = "hash_search" /\ query.kind = "Exact") =>
        LET Same(v) == v = ParseV(query.v1).v
        IN  IF Parses(query.v1)
            THEN result = Ok(IdsWhere(inserted.hash, Same))
            ELSE result = Err("MismatchedQueryType")

C10_Witness ==
    /\ op = "hash_search" /\ query.kind = "Exact"
    /\ query.attr = AttrR
    /\ query.v1 = <<"+", "1">>
    /\ result.kind = "Ok"
    /\ result.set # {}
    /\ \E row \in inserted.hash : row[1] \notin result.set

(***************************************************************************)
(* The selector +attr:<lo,>hi against OutRange (SpecRange).                *)
(***************************************************************************)
RangeSelectorRan(lo, hi) ==
    /\ op = "query_str"
    /\ compiled.str = RangeSelector(lo, hi)
    /\ AttrR \in DOMAIN engine
    /\ ParseV(lo).v <= ParseV(hi).v

IsPrefixOf(p, k) == Len(p) <= Len(k) /\ SubSeq(k, 1, Len(p)) = p

PrefixIdsWhere(Matches(_)) == {r[1] : r \in {x \in inserted.prefix : Matches(x[2])}}

\* C11: Prefix(_, p) on the prefix-tree index returns exactly the ids
\* inserted with a key that starts with p: the empty set when no key starts
\* with p, and every id ever inserted when p is empty.
C11_PrefixLeaf ==
    (op = "prefix_search" /\ query.kind = "Prefix") =>
        /\ result = Ok(LET Starts(k) == IsPrefixOf(query.v1, k) IN PrefixIdsWhere(Starts))
        /\ query.v1 = <<>> => result.set = {r[1] : r \in inserted.prefix}

C11_Witness ==
    /\ op = "prefix_search" /\ query.kind = "Prefix" /\ query.v1 = <<"a">>
    /\ <<1, <<"a", "b">>>> \in inserted.prefix
    /\ <<2, <<"b">>>> \in inserted.prefix
    /\ \A r \in inserted.prefix : r[2] # <<"a">>
    /\ result = Ok({1})

\* C12: Exact(_, s) on the prefix-tree index returns exactly the ids
\* inserted with the key s; longer keys and proper prefixes of s contribute
\* nothing, and the result is a subset of the result of Prefix(_, s).
C12_ExactLeaf ==
    (op = "prefix_search" /\ query.kind = "Exact") =>
        /\ result = Ok(LET Same(k) == k = query.v1 IN PrefixIdsWhere(Same))
        /\ result.set \subseteq PrefixSearch(ptree, Prefix(query.attr, query.v1)).set

C12_Witness ==
    /\ op = "prefix_search" /\ query.kind = "Exact" /\ query.v1 = <<"a">>
    /\ <<1, <<"a", "b">>>> \in inserted.prefix
    /\ <<2, <<>>>> \in inserted.prefix
    /\ \A r \in inserted.prefix : r[2] # <<"a">>
    /\ result = Ok({})
    /\ PrefixSearch(ptree, Prefix(query.attr, query.v1)).set = {1}

(***************************************************************************)
(* Inserts and capabilities of the three indices (SpecInserts,             *)
(* SpecIndices).                                                           *)
(***************************************************************************)
\* C13: an insert of an (id, value) pair the index already holds leaves
\* the index as it was, and with it every leaf query's outcome, for each of
\* the three indices, and adds no node and no posting to the prefix tree.
C13_IdempotentInsert ==
    [][last'.present =>
          /\ op' = "btree_insert" =>
                /\ \A q \in CapabilityQueries :
                      BTreeSearch(btree', q) = BTreeSearch(btree, q)
                /\ btree' = btree
          /\ op' = "hash_insert" =>
                /\ \A q \in CapabilityQueries :
                      HashSearch(hmap', q) = HashSearch(hmap, q)
                /\ hmap' = hmap
          /\ op' = "prefix_insert" =>
                /\ \A q \in CapabilityQueries :
                      PrefixSearch(ptree', q) = PrefixSearch(ptree, q)
                /\ Len(ptree'.index.nodes) = Len(ptree.index.nodes)
                /\ Len(ptree'.index.values) = Len(ptree.index.values)
                /\ ptree' = ptree]_vars

C13_Witness ==
    /\ op = "prefix_insert"
    /\ last.present
    /\ last.value = <<"a", "b">>
    /\ Cardinality(inserted.prefix) = MaxInserts
    /\ PrefixSearch(ptree, Prefix(AttrR, <<"a">>)).set = Ids

FlagOf(kind) ==
    CASE kind = "Exact" -> SUPPORTS_EXACT
      [] kind = "Prefix" -> SUPPORTS_PREFIX
      [] kind = "InRange" -> SUPPORTS_INRANGE
      [] kind = "OutRange" -> SUPPORTS_OUTRANGE
      [] kind = "Minimum" -> SUPPORTS_MINIMUM
      [] kind = "Maximum" -> SUPPORTS_MAXIMUM

Capable(supported, kind) == kind \in LeafKinds /\ Supports(supported, FlagOf(kind))

Unsupported == result.kind = "Err" /\ result.err = "UnsupportedQuery"

\* C14: each index fails with UnsupportedQuery exactly for the leaf variants
\* outside its capability set (hash: Exact; prefix tree: Exact, Prefix;
\* ordered: Exact, InRange, OutRange, Minimum, Maximum) and for every And,
\* Or and Exclude, whatever it holds and whatever the payload; the capability
\* set is the same after every insert.
C14_UnsupportedQuery ==
    /\ op = "btree_search" =>
          /\ Unsupported <=> ~Capable(supported_queries(btree), query.kind)
          /\ Unsupported <=>
                query.kind \notin {"Exact", "InRange", "OutRange", "Minimum", "Maximum"}
    /\ op = "hash_search" =>
          /\ Unsupported <=> ~Capable(supported_queries(hmap), query.kind)
          /\ Unsupported <=> query.kind # "Exact"
    /\ op = "prefix_search" =>
          /\ Unsupported <=> ~Capable(supported_queries(ptree), query.kind)
          /\ Unsupported <=> query.kind \notin {"Exact", "Prefix"}
    /\ supported_queries(btree) = BTreeSupportedQueries
    /\ supported_queries(hmap) = HashSupportedQueries
    /\ supported_queries(ptree) = PrefixSupportedQueries

C14_Witness ==
    /\ op = "prefix_search"
    /\ query.kind = "Minimum"
    /\ inserted.prefix # {}
    /\ Unsupported

(***************************************************************************)
(* The query compiler (SpecValues, SpecCompile).                           *)
(***************************************************************************)
CountChar(v, c) == Cardinality({i \in 1..Len(v) : v[i] = c})

FirstAt(v, c) == CHOOSE i \in 1..Len(v) : v[i] = c /\ \A j \in 1..(i - 1) : v[j] # c

Has(supported, kind) == Supports(supported, FlagOf(kind))

\* The leaf the precedence of the value mapping gives for v.
ExpectedLeaf(supported, attr, v) ==
    CASE Has(supported, "Minimum") /\ v[1] = ">" ->
            Minimum(attr, SubSeq(v, 2, Len(v)))
      [] ~(Has(supported, "Minimum") /\ v[1] = ">")
         /\ Has(supported, "Maximum") /\ v[1] = "<" ->
            Maximum(attr, SubSeq(v, 2, Len(v)))
      [] ~(Has(supported, "Minimum") /\ v[1] = ">")
         /\ ~(Has(supported, "Maximum") /\ v[1] = "<")
         /\ Has(supported, "Exact") /\ v[1] = "=" ->
            Exact(attr, SubSeq(v, 2, Len(v)))
      [] OTHER ->
            IF Has(supported, "InRange") /\ CountChar(v, "-") = 1
            THEN InRange(attr, SubSeq(v, 1, FirstAt(v, "-") - 1),
                               SubSeq(v, FirstAt(v, "-") + 1, Len(v)))
            ELSE IF Has(supported, "Prefix") THEN Prefix(attr, v)
            ELSE Exact(attr, v)

ValueSelectorRan(v) ==
    /\ op = "query_str"
    /\ compiled.str = ValueSelector(v)
    /\ AttrR \in DOMAIN engine

\* C15: query_from_str maps a value v to the first applicable leaf in the
\* order Minimum ('>'), Maximum ('<'), Exact ('='), InRange (one '-'),
\* Prefix, Exact; an operator prefix wins over an infix '-', and an operator
\* character whose capability the index lacks stays in the payload.
C15_ValueMapping ==
    \A v \in ValueStrings :
        ValueSelectorRan(v) =>
            LET supported == supported_queries(engine[AttrR])
                leaf == compiled.query.children[1]
            IN  /\ compiled.kind = "Ok"
                /\ compiled.query = And(<<ExpectedLeaf(supported, AttrR, v)>>)
                /\ leaf.kind \in {"Minimum", "Maximum"} => leaf.v1 = Tail(v)
                /\ (v[1] = ">" /\ Has(supported, "Minimum")) => leaf.kind = "Minimum"
                /\ ~Has(supported, "Minimum") /\ v[1] = ">" =>
                      \/ leaf.kind \in {"Exact", "Prefix"} /\ leaf.v1 = v
                      \/ leaf.kind = "InRange" /\ leaf.v1[1] = ">"

C15_Witness ==
    /\ ValueSelectorRan(<<">", "-", "1">>)
    /\ Has(supported_queries(engine[AttrR]), "InRange")
    /\ Has(supported_queries(engine[AttrR]), "Minimum")
    /\ compiled.query = And(<<Minimum(AttrR, <<"-", "1">>)>>)

Tokens == QueryLexer(compiled.str)

CompileRan == op = "query_str"

IncludeClauses(q) == IF q.kind = "Exclude" THEN q.base.children ELSE q.children

ExcludeClauses(q) == IF q.kind = "Exclude" THEN q.children ELSE <<>>

\* Positions of the selectors with the given sign and at least one value.
Selectors(is_include) ==
    SortedSeq({i \in 1..Len(Tokens) :
                  /\ Tokens[i].type = "Attribute"
                  /\ Tokens[i].include = is_include
                  /\ Tokens[i].values # <<>>})

ClauseOf(token, clause) ==
    LET supported == supported_queries(engine[token.name])
        n == Len(token.values)
    IN  IF n = 1
        THEN clause = ValueToQuery(supported, token.name, token.values[1])
        ELSE /\ clause.kind = "Or"
             /\ Len(clause.children) = n
             /\ \A j \in 1..n :
                   clause.children[j] =
                       ValueToQuery(supported, token.name, token.values[j])

ClausesMatch(clauses, selectors) ==
    /\ Len(clauses) = Len(selectors)
    /\ \A k \in 1..Len(selectors) : ClauseOf(Tokens[selectors[k]], clauses[k])

\* C16: a selector with no value contributes no clause, one with a single
\* value its leaf itself, one with n >= 2 values an Or of its n leaves in
\* value order; every selector gives its own clause, also when an attribute
\* repeats.
C16_ClausePerSelector ==
    (CompileRan /\ compiled.kind = "Ok") =>
        /\ ClausesMatch(IncludeClauses(compiled.query), Selectors(TRUE))
        /\ ClausesMatch(ExcludeClauses(compiled.query), Selectors(FALSE))
        /\ \A k \in 1..Len(IncludeClauses(compiled.query)) :
              LET clause == IncludeClauses(compiled.query)[k]
              IN  clause.kind = "Or" => Len(clause.children) >= 2

C16_Witness ==
    /\ CompileRan /\ compiled.kind = "Ok"
    /\ compiled.str = <<"+", "r", ":", "1", ",", "=", "2", " ", "+", "h", ":", " ",
                        "+", "r", ":", "1">>
    /\ Len(IncludeClauses(compiled.query)) = 2
    /\ IncludeClauses(compiled.query)[1].kind = "Or"
    /\ IncludeClauses(compiled.query)[2].kind = "Exact"

ExpectedClause(token) ==
    LET supported == supported_queries(engine[token.name])
        leaves == [j \in 1..Len(token.values) |->
                      ValueToQuery(supported, token.name, token.values[j])]
    IN  IF Len(leaves) = 1 THEN leaves[1] ELSE Or(leaves)

ExpectedClauses(is_include) ==
    [k \in 1..Len(Selectors(is_include)) |->
        ExpectedClause(Tokens[Selectors(is_include)[k]])]

CompilerLeafKinds == LeafKinds \ {"OutRange"}

IsCompilerClause(clause) ==
    \/ clause.kind \in CompilerLeafKinds
    \/ /\ clause.kind = "Or"
       /\ \A j \in 1..Len(clause.children) : clause.children[j].kind \in CompilerLeafKinds

\* C17: a compiled query is And(I) when no exclusion selector gave a clause
\* and Exclude(And(I), E) with E non-empty otherwise, I and E being the
\* clauses of the '+' and '-' selectors in input order; the empty string
\* gives And([]); no OutRange, nested And or nested Exclude occurs.
C17_QueryShape ==
    (CompileRan /\ compiled.kind = "Ok") =>
        LET I == ExpectedClauses(TRUE)
            E == ExpectedClauses(FALSE)
        IN  /\ compiled.query = IF E = <<>> THEN And(I) ELSE Exclude(And(I), E)
            /\ compiled.query.kind = "Exclude" => compiled.query.children # <<>>
            /\ compiled.str = <<>> => compiled.query = And(<<>>)
            /\ \A k \in 1..Len(I) : IsCompilerClause(IncludeClauses(compiled.query)[k])
            /\ \A k \in 1..Len(E) : IsCompilerClause(ExcludeClauses(compiled.query)[k])

C17_Witness ==
    /\ CompileRan /\ compiled.kind = "Ok"
    /\ compiled.str = <<"-", "r", ":", "a", " ", "+", "r", ":", "1", " ",
                        "-", "h", ":", "<", "1", ",", "2", "-", "3">>
    /\ compiled.query.kind = "Exclude"
    /\ Len(compiled.query.base.children) = 1
    /\ Len(compiled.query.children) = 2
    /\ compiled.query.children[1].attr = AttrR
    /\ compiled.query.children[2].kind = "Or"

UnknownSelector ==
    \E i \in 1..Len(Tokens) :
        Tokens[i].type = "Attribute" /\ Tokens[i].name \notin DOMAIN engine

\* C18: query_from_str fails with UnknownAttribute exactly when some
\* attribute token, also one without values, names an index that is not
\* registered; it then returns no query and no freetext.  Freetext and
\* malformed selectors never make it fail.
C18_UnknownAttribute ==
    CompileRan =>
        /\ compiled.kind \in {"Ok", "Err"}
        /\ compiled.kind = "Err" <=> UnknownSelector
        /\ compiled.kind = "Err" =>
              /\ compiled.err = "UnknownAttribute"
              /\ compiled.query = NoQuery
              /\ compiled.freetexts = <<>>
              /\ result = Err("UnknownAttribute")

C18_Witness ==
    /\ CompileRan
    /\ compiled.str = <<"+", "r", ":", "1", " ", "x", " ", "+", "h", ":">>
    /\ AttrR \in DOMAIN engine
    /\ AttrH \notin DOMAIN engine
    /\ compiled.kind = "Err"

IsSelectorRun(run) == run # <<>> /\ QueryLexer(run)[1].type = "Attribute"

IsWordRun(run) == run # <<>> /\ ~IsSelectorRun(run)

\* The query string without its freetext.
StripFreetext(s) == JoinRuns(SelectSeq(Split(s, " "), IsSelectorRun), 1)

\* C19: the freetext list of a compiled query string is the lexer's Freetext
\* tokens, verbatim and in input order, and the query is the one compiled
\* from the string without its freetext.
C19_FreetextApart ==
    (CompileRan /\ compiled.kind = "Ok") =>
        LET at == SortedSeq({i \in 1..Len(Tokens) : Tokens[i].type = "Freetext"})
        IN  /\ compiled.freetexts = [k \in 1..Len(at) |-> Tokens[at[k]].text]
            /\ compiled.freetexts = SelectSeq(Split(compiled.str, " "), IsWordRun)
            /\ compiled.query = query_from_str(engine, StripFreetext(compiled.str)).query
            /\ query_from_str(engine, StripFreetext(compiled.str)).freetexts = <<>>

C19_Witness ==
    /\ CompileRan /\ compiled.kind = "Ok"
    /\ compiled.str = <<"x", " ", "+", "r", ":", "1", " ", "+", "r">>
    /\ compiled.freetexts = <<<<"x">>, <<"+", "r">>>>
    /\ Len(compiled.query.children) = 1

(***************************************************************************)
(* The query lexer (SpecLexer).                                            *)
(***************************************************************************)
\* The whitespace-delimited runs of a string, in order.
NonEmpty(run) == run # <<>>

\* The maximal runs of non-whitespace characters of s, in input order.
RECURSIVE RunsFrom(_, _, _)
RunsFrom(s, i, run) ==
    LET closed == IF NonEmpty(run) THEN <<run>> ELSE <<>>
    IN  IF i > Len(s) THEN closed
        ELSE IF IsWhitespace(s[i]) THEN closed \o RunsFrom(s, i + 1, <<>>)
        ELSE RunsFrom(s, i + 1, Append(run, s[i]))

RunsOf(s) == RunsFrom(s, 1, <<>>)

\* The length of the identifier of a run that is a selector: a sign, one or
\* more alphanumeric characters, a colon.  0 when the run is no selector.
NameLen(run) ==
    IF /\ run[1] \in {"+", "-"}
       /\ \E n \in 1..(Len(run) - 2) :
             /\ \A j \in 2..(n + 1) : IsAlphanumeric(run[j])
             /\ run[n + 2] = ":"
    THEN CHOOSE n \in 1..(Len(run) - 2) :
             /\ \A j \in 2..(n + 1) : IsAlphanumeric(run[j])
             /\ run[n + 2] = ":"
    ELSE 0

\* C20: the lexer emits an Attribute token for a whitespace-delimited run
\* exactly when the run is a sign, one or more alphanumeric characters and a
\* colon, with the flag true for '+' and the identifier as name; every other
\* run is emitted whole as one Freetext token.
C20_AttributeOrFreetext ==
    lexed.done =>
        LET runs == RunsOf(lexed.str)
        IN  /\ Len(lexed.tokens) = Len(runs)
            /\ \A k \in 1..Len(runs) :
                  LET run == runs[k]
                      token == lexed.tokens[k]
                  IN  IF NameLen(run) > 0
                      THEN /\ token.type = "Attribute"
                           /\ token.include = (run[1] = "+")
                           /\ token.name = SubSeq(run, 2, NameLen(run) + 1)
                      ELSE token = FreetextToken(run)

C20_Witness ==
    /\ lexed.done
    /\ lexed.str = <<"-", "a", ":", " ", "+">>
    /\ lexed.tokens = <<AttributeToken(FALSE, <<"a">>, <<>>), FreetextToken(<<"+">>)>>


(***************************************************************************)
(* C21: the values of an Attribute token                                   *)
(***************************************************************************)
\* The text of a selector run after its colon.
ValueText(run) == SubSeq(run, NameLen(run) + 3, Len(run))

\* The maximal comma-free pieces of text, empty ones included, in order.
RECURSIVE Pieces(_, _)
Pieces(text, piece) ==
    IF text = <<>> THEN <<piece>>
    ELSE IF Head(text) = "," THEN <<piece>> \o Pieces(Tail(text), <<>>)
    ELSE Pieces(Tail(text), Append(piece, Head(text)))

NoWhitespace(text) == \A i \in 1..Len(text) : ~IsWhitespace(text[i])

\* The characters of the input a token was read from, commas of a value
\* list apart: the text of a Freetext, the sign, name and colon of an
\* Attribute.
TokenHead(t) ==
    IF t.type = "Freetext" THEN t.text
    ELSE <<IF t.include THEN "+" ELSE "-">> \o t.name \o <<":">>

\* C27: the lexer emits one token per maximal run of non-whitespace
\* characters, in input order, and then ends; no Freetext is empty or holds
\* whitespace, no attribute name or value holds whitespace, and an empty or
\* all-whitespace input yields no token.
C27_TokenPerRun ==
    lexed.done =>
        LET runs == RunsOf(lexed.str)
            tokens == lexed.tokens
        IN  /\ Len(tokens) = Len(runs)
            /\ \A k \in 1..Len(tokens) :
                  /\ Len(TokenHead(tokens[k])) <= Len(runs[k])
                  /\ TokenHead(tokens[k]) = SubSeq(runs[k], 1, Len(TokenHead(tokens[k])))
                  /\ tokens[k].type = "Freetext" =>
                        /\ tokens[k].text = runs[k]
                        /\ NonEmpty(tokens[k].text)
                        /\ NoWhitespace(tokens[k].text)
                  /\ tokens[k].type = "Attribute" =>
                        /\ NoWhitespace(tokens[k].name)
                        /\ \A j \in 1..Len(tokens[k].values) :
                              NoWhitespace(tokens[k].values[j])
            /\ (\A i \in 1..Len(lexed.str) : IsWhitespace(lexed.str[i])) => tokens = <<>>

C27_Witness ==
    /\ lexed.done
    /\ lexed.str = <<"\t", "a", "\t", "+", " ">>
    /\ lexed.tokens = <<FreetextToken(<<"a">>), FreetextToken(<<"+">>)>>


(***************************************************************************)
(* C22: add_index binds a name to the index added last                     *)
(***************************************************************************)
\* What a leaf on its attribute gets from the index bound, Err when none is.
AnsweredBy(bound, q) ==
    IF bound.some THEN IndexSearch(bound.v, q) ELSE Err("UnknownAttribute")

\* The index a leaf on name n is to be answered by after the call in added:
\* the index of the call for its name, the one bound before for the others.
BoundAfter(indices, call, n) ==
    IF n = call.name THEN Some(call.index)
    ELSE IF n \in DOMAIN indices THEN Some(indices[n]) ELSE None

\* C22: an add_index call binds its name to its index, replacing the index
\* the name was bound to, and changes no other name, names that differ in
\* letter case being different names; no other call changes a binding, and
\* a leaf query and a one-selector query string on a name are answered by
\* the index bound to it.
C22_LastAddedAnswers ==
    [][/\ op' = "add_index" =>
            /\ added'.previous = BoundAfter(engine, NoAdd, added'.name)
            /\ \A q \in RegistryQueries :
                  SearchLeaf(engine', q) =
                      AnsweredBy(BoundAfter(engine, added', q.attr), q)
       /\ op' # "add_index" => engine' = engine /\ added' = added
       /\ op' = "search" /\ added.done =>
            result' = AnsweredBy(BoundAfter(engine, added, query'.attr), query')
       /\ op' = "query_str" /\ added.done /\ compiled'.kind = "Ok" /\ compiled'.str[1] = "+" =>
            result' = AnsweredBy(BoundAfter(engine, added, query'.children[1].attr),
                                 query'.children[1])
      ]_vars

C22_Witness ==
    /\ op = "search"
    /\ added.done /\ added.name = AttrN
    /\ added.previous.some /\ added.previous.v # added.index
    /\ AttrUpperN \in DOMAIN engine /\ engine[AttrUpperN] = added.previous.v
    /\ query = Exact(AttrN, <<"1">>)
    /\ result = IndexSearch(added.index, query)
    /\ result # IndexSearch(added.previous.v, query)


(***************************************************************************)
(* C23: a search sees the pairs inserted before it                         *)
(***************************************************************************)
IndexTypes == {"btree", "hash", "prefix"}

\* Whether a value inserted into an index of the type matches the leaf.
RowMatches(type, q, value) ==
    IF type = "prefix"
    THEN CASE q.kind = "Exact" -> value = q.v1
           [] q.kind = "Prefix" -> IsPrefixOf(q.v1, value)
           [] OTHER -> FALSE
    ELSE CASE q.kind = "Exact" -> value = ParseV(q.v1).v
           [] q.kind = "Minimum" -> value >= ParseV(q.v1).v
           [] q.kind = "Maximum" -> value <= ParseV(q.v1).v
           [] q.kind = "InRange" -> ParseV(q.v1).v <= value /\ value <= ParseV(q.v2).v
           [] q.kind = "OutRange" -> value < ParseV(q.v1).v \/ value > ParseV(q.v2).v
           [] OTHER -> FALSE

\* C23: in every interleaving of insert and search calls on an index of any
\* of the three types, a search that succeeds returns exactly the ids of
\* the pairs inserted before it whose value matches: no pair inserted
\* earlier is missing, no id is returned that was not inserted with a
\* matching value, and an Exact leaf with a payload of the value type
\* succeeds without any step between the inserts and the search.
C23_SearchReflectsInserts ==
    [][\A type \in IndexTypes :
          op' = type \o "_search" =>
              /\ result'.kind = "Ok" =>
                    result'.set =
                        {r[1] : r \in {x \in inserted[type] :
                                          RowMatches(type, query', x[2])}}
              /\ (query'.kind = "Exact" /\ (type = "prefix" \/ Parses(query'.v1))) =>
                    result'.kind = "Ok"
      ]_vars

C23_Witness ==
    /\ op = "btree_search"
    /\ query = Exact(AttrR, <<"1">>)
    /\ inserted.btree = {<<1, 1>>, <<2, 1>>, <<2, 2>>}
    /\ result = Ok({1, 2})


(***************************************************************************)
(* C24: a query string returns the intersection of its '+' selectors      *)
(* minus the union of its '-' selectors                                    *)
(***************************************************************************)
\* The positions of the selectors with the sign that have a value.
SelectorsWithValue(is_include) ==
    {k \in 1..Len(Tokens) : /\ Tokens[k].type = "Attribute"
                            /\ Tokens[k].include = is_include
                            /\ Tokens[k].values # <<>>}

\* The outcome of the leaf of value j of the selector at position k.
ValueLeafOut(k, j) ==
    SearchLeaf(engine, ValueToQuery(supported_queries(engine[Tokens[k].name]),
                                    Tokens[k].name, Tokens[k].values[j]))

SelectorUnion(k) ==
    UNION {ValueLeafOut(k, j).set : j \in 1..Len(Tokens[k].values)}

AllValueLeavesOk ==
    \A k \in SelectorsWithValue(TRUE) \cup SelectorsWithValue(FALSE) :
        \A j \in 1..Len(Tokens[k].values) : ValueLeafOut(k, j).kind = "Ok"

IncludeIntersection ==
    IF SelectorsWithValue(TRUE) = {} THEN {}
    ELSE {id \in Ids : \A k \in SelectorsWithValue(TRUE) : id \in SelectorUnion(k)}

ExcludeUnion == UNION {SelectorUnion(k) : k \in SelectorsWithValue(FALSE)}

\* C24: for a query string whose selectors all name registered indices and
\* whose value leaves all evaluate without error, searching the compiled
\* query returns the intersection, over the '+' selectors with a value, of
\* the union of the results of the selector's value leaves, minus the union
\* of the results of the value leaves of the '-' selectors; the
\* intersection over no '+' selector is the empty set.
C24_RoundTrip ==
    (CompileRan /\ compiled.kind = "Ok" /\ AllValueLeavesOk) =>
        result = Ok(IncludeIntersection \ ExcludeUnion)

C24_Witness ==
    /\ CompileRan /\ compiled.kind = "Ok" /\ AllValueLeavesOk
    /\ Cardinality(SelectorsWithValue(TRUE)) = 2
    /\ Cardinality(SelectorsWithValue(FALSE)) = 1
    /\ Cardinality(IncludeIntersection) = 2
    /\ result = Ok({1})


(***************************************************************************)
(* C30: a query string without a '+' value never returns an id             *)
(***************************************************************************)
\* C30: the query compiled from a string in which no '+' selector has a
\* value (the empty string, freetext only, '-' selectors only) never
\* evaluates to a non-empty set, whatever the indices hold: the result is
\* the empty set, or the error of the first exclusion clause; it is not the
\* complement of the excluded ids.
C30_NoIncludeNoIds ==
    (CompileRan /\ compiled.kind = "Ok" /\ SelectorsWithValue(TRUE) = {}) =>
        IF SelectorsWithValue(FALSE) = {} THEN result = Ok({})
        ELSE LET first == Search(engine, query.children[1]).out
             IN  /\ query.kind = "Exclude"
                 /\ result = IF first.kind = "Ok" THEN Ok({}) ELSE first

C30_Witness ==
    /\ CompileRan /\ compiled.kind = "Ok"
    /\ compiled.str = <<"-", "r", ":", "2">>
    /\ SearchLeaf(engine, Exact(AttrR, <<"2">>)) = Ok({2})
    /\ result = Ok({})


(***************************************************************************)
(* C25: And stops at the first empty accumulator                           *)
(***************************************************************************)
\* The accumulator of And after child i, when the children 1..i succeed.
AndAccumulator(q, i) ==
    {x \in ChildOut(q, 1).set : \A j \in 1..i : x \in ChildOut(q, j).set}

\* The children of And after which the loop sees an empty accumulator.
EmptyAfter(q) ==
    {i \in 1..Len(q.children) :
        /\ \A j \in 1..i : ChildOut(q, j).kind = "Ok"
        /\ AndAccumulator(q, i) = {}}

\* C25: when the accumulator of And is empty after child i, the first
\* child included, the result is the empty set and the children after i are
\* not evaluated: an unknown attribute, an unsupported variant or an
\* unparsable payload in one of them gives no error.
C25_AndStopsWhenEmpty ==
    (IsSearch /\ query.kind = "And" /\ EmptyAfter(query) # {}) =>
        LET i == CHOOSE i \in EmptyAfter(query) : \A j \in EmptyAfter(query) : i <= j
        IN  /\ result = Ok({})
            /\ evald.children = i
            /\ evald.leaves = ConcatLeaves(query, i)

C25_Witness ==
    /\ IsSearch /\ query.kind = "And"
    /\ Len(query.children) = 3
    /\ EmptyAfter(query) = {1}
    /\ ChildOut(query, 2).kind = "Err"
    /\ ChildOut(query, 3).kind = "Err"
    /\ ChildOut(query, 2).err # ChildOut(query, 3).err
    /\ result = Ok({})
    /\ evald.children = 1

(***************************************************************************)
(* C29: Exclude tests for emptiness after a subtraction only               *)
(***************************************************************************)
\* C29: in Exclude(base, [s1..sk]) with k >= 1 and a base that evaluates to
\* the empty set, s1 is evaluated all the same and its error is the result
\* of the query, while s2..sk are not evaluated; And of the same children
\* ends after the empty first child without evaluating any other.
C29_ExcludeEvaluatesFirst ==
    (/\ IsSearch /\ query.kind = "Exclude"
     /\ Len(query.children) >= 1
     /\ ChildOut(query, 1) = Ok({})) =>
        LET s1 == Search(engine, query.children[1])
            conj == Search(engine, And(QueryChildren(query)))
        IN  /\ result = IF s1.out.kind = "Ok" THEN Ok({}) ELSE s1.out
            /\ evald.children = 2
            /\ evald.leaves = ConcatLeaves(query, 2)
            /\ conj.out = Ok({}) /\ conj.children = 1
            /\ conj.leaves = ConcatLeaves(query, 1)

C29_Witness ==
    /\ IsSearch /\ query.kind = "Exclude"
    /\ Len(query.children) = 2
    /\ ChildOut(query, 1) = Ok({})
    /\ ChildOut(query, 2).kind = "Err"
    /\ ChildOut(query, 3).kind = "Err"
    /\ ChildOut(query, 2).err # ChildOut(query, 3).err
    /\ result = ChildOut(query, 2)


(***************************************************************************)
(* C26: the infix '-' of a range value                                     *)
(***************************************************************************)
\* No operator prefix rule applies to v on an index with these capabilities.
NoOperatorRule(supported, v) ==
    /\ ~(Has(supported, "Minimum") /\ v[1] = ">")
    /\ ~(Has(supported, "Maximum") /\ v[1] = "<")
    /\ ~(Has(supported, "Exact") /\ v[1] = "=")

\* C26: on an index that supports InRange, a value no operator prefix rule
\* applies to compiles to InRange(attr, text before the '-', text after the
\* '-') when it holds exactly one '-', an empty side included; with two or
\* more '-' it is never an InRange and falls back, whole, to Prefix if the
\* index supports Prefix and to Exact otherwise.
C26_RangeValue ==
    \A v \in ValueStrings :
        (/\ ValueSelectorRan(v)
         /\ Has(supported_queries(engine[AttrR]), "InRange")
         /\ NoOperatorRule(supported_queries(engine[AttrR]), v)) =>
            LET supported == supported_queries(engine[AttrR])
                leaf == compiled.query.children[1]
            IN  /\ compiled.kind = "Ok" /\ Len(compiled.query.children) = 1
                /\ CountChar(v, "-") = 1 =>
                      /\ leaf.kind = "InRange" /\ leaf.attr = AttrR
                      /\ leaf.v1 \o <<"-">> \o leaf.v2 = v
                /\ CountChar(v, "-") >= 2 =>
                      leaf = IF Has(supported, "Prefix") THEN Prefix(AttrR, v)
                             ELSE Exact(AttrR, v)

C26_Witness ==
    /\ ValueSelectorRan(<<"-", "1">>)
    /\ Has(supported_queries(engine[AttrR]), "Minimum")
    /\ compiled.query = And(<<InRange(AttrR, <<>>, <<"1">>)>>)


(***************************************************************************)
(* C28: the edge list of a node of the prefix tree is sorted               *)
(***************************************************************************)
\* C28: after any sequence of inserts the edge list of every node of the
\* prefix tree is strictly increasing by character, so no character labels
\* two edges, and find_child returns a child for a character exactly when
\* the node has an edge labelled with it, namely the child of that edge.
C28_SortedEdges ==
    \A n \in 1..Len(ptree.index.nodes) :
        LET node == ptree.index.nodes[n]
            edges == node.children
        IN  /\ \A i \in 1..(Len(edges) - 1) :
                  CharCode(edges[i][1]) < CharCode(edges[i + 1][1])
            /\ \A c \in EdgeChars :
                  /\ find_child(node, c).some <=> \E i \in 1..Len(edges) : edges[i][1] = c
                  /\ \A i \in 1..Len(edges) :
                        edges[i][1] = c => find_child(node, c) = Some(edges[i][2])

C28_Witness ==
    /\ op = "prefix_insert"
    /\ ptree.index.nodes[1].children = <<<<"a", 2>>, <<"p", 3>>, <<"x", 1>>>>

=============================================================================
